---- MODULE Spec2Model ----
(***************************************************************************)
(* A model of OMesh's OptimizationMesh (deps/omesh/src/OptimizationMesh.cpp) *)
(* : the vertex and face tables, the per-vertex neighbour rings and the     *)
(* operations createNeighborlist, smooth (relocation + edge flipping),     *)
(* coarse (decimation, subdividePolygon, compaction) and refine.           *)
(*                                                                         *)
(* Tables are functions over 0..n-1, as the C arrays are; a ring (the       *)
(* singly linked NPNT3 list hanging off neighborList[v]) is the sequence of *)
(* its records in list order.  Coordinates are integers; the comparisons    *)
(* the code makes on float cosines, angles and dot products are made here   *)
(* exactly, on the rational numbers those floats approximate.               *)
(***************************************************************************)
EXTENDS Integers, Sequences, FiniteSets, TLC

VARIABLES numberVertices, numberFaces, vertex, face, neighborList,
          pc, args, loop, log, fault, opCount, budget

vars == <<numberVertices, numberFaces, vertex, face, neighborList,
          pc, args, loop, log, fault, opCount, budget>>

-----------------------------------------------------------------------------
(* Small helpers over 0-based tables and sequences.                          *)

Idx(n) == 0 .. (n - 1)

Vtx(x, y, z, sel) == [x |-> x, y |-> y, z |-> z, marker |-> 0, selected |-> sel]

Tri(a, b, c) == [v1 |-> a, v2 |-> b, v3 |-> c, marker |-> 0]

Rec(a, b, c) == [a |-> a, b |-> b, c |-> c]

\* A table given as a sequence, re-indexed from 0.
Table(s) == [i \in Idx(Len(s)) |-> s[i + 1]]

RemoveAt(s, i) == SubSeq(s, 1, i - 1) \o SubSeq(s, i + 1, Len(s))

InsertAfter(s, i, r) == SubSeq(s, 1, i) \o <<r>> \o SubSeq(s, i + 1, Len(s))

\* The least index of s (from 1) whose element satisfies P, 0 when none does:
\* a walk down a list that stops at the first match or at nullptr.
Find(s, P(_)) ==
    LET S == {i \in 1 .. Len(s) : P(s[i])}
    IN IF S = {} THEN 0 ELSE CHOOSE i \in S : \A j \in S : i <= j

SumOver(S, f(_)) ==
    LET RECURSIVE Sum(_)
        Sum(T) == IF T = {} THEN 0
                  ELSE LET t == CHOOSE u \in T : TRUE
                       IN f(t) + Sum(T \ {t})
    IN Sum(S)

-----------------------------------------------------------------------------
(* createNeighborlist and removeUnconnectedVertices.  A mesh value is the    *)
(* record [nv, nf, vertex, face, nl, hasNl]: the fields of OptimizationMesh *)
(* the operations read and write.                                           *)

Mesh(nv, nf, vtab, ftab, nl, hasNl) ==
    [nv |-> nv, nf |-> nf, vertex |-> vtab, face |-> ftab, nl |-> nl, hasNl |-> hasNl]

NoRings == [i \in {} |-> <<>>]

\* destroyNeighborlist: frees the rings and nulls the pointer.
destroyNeighborlist(M) == [M EXCEPT !.nl = NoRings, !.hasNl = FALSE]

\* removeUnconnectedVertices, its loops run in index order: verticesToRemove[n]
\* counts the vertices with marker < 0 among 0..n, survivors move down by it,
\* face indices are rewritten, numberVertices drops by the number removed.
removeUnconnectedVertices(M) ==
    LET verticesToRemove == [n \in Idx(M.nv) |->
            Cardinality({k \in 0 .. n : M.vertex[k].marker < 0})]
        numberRemovedVertices == Cardinality({k \in Idx(M.nv) : M.vertex[k].marker < 0})
        keep == {n \in Idx(M.nv) : M.vertex[n].marker >= 0}
        src(i) == CHOOSE n \in keep : n - verticesToRemove[n] = i
        newNv == M.nv - numberRemovedVertices
        moved == [i \in Idx(M.nv) |->
                    IF \E n \in keep : n - verticesToRemove[n] = i
                    THEN M.vertex[src(i)] ELSE M.vertex[i]]
    IN [M EXCEPT
          !.vertex = [i \in Idx(newNv) |-> moved[i]],
          !.face = [k \in Idx(M.nf) |->
                      [M.face[k] EXCEPT !.v1 = @ - verticesToRemove[@],
                                        !.v2 = @ - verticesToRemove[@],
                                        !.v3 = @ - verticesToRemove[@]]],
          !.nv = newNv]

\* Lines 256-309: face k = (a,b,c) pushes (b,c,k), (c,a,k), (a,b,k) on the
\* front of the lists of a, b, c, in that order.
RECURSIVE CollectRings(_, _, _)
CollectRings(M, k, rings) ==
    IF k >= M.nf THEN rings
    ELSE LET a == M.face[k].v1
             b == M.face[k].v2
             c == M.face[k].v3
             r1 == [rings EXCEPT ![a] = <<Rec(b, c, k)>> \o @]
             r2 == [r1 EXCEPT ![b] = <<Rec(c, a, k)>> \o @]
             r3 == [r2 EXCEPT ![c] = <<Rec(a, b, k)>> \o @]
         IN CollectRings(M, k + 1, r3)

\* Lines 333-372 (and 2343-2388 of coarse): the ordering walk.  At list
\* position i it looks down the rest of the list for the first record with
\* a0 = b and b0 /= a and splices it in right behind position i.  st.b0 is
\* the variable b0 of the code: the b of the last record the inner loop read.
RECURSIVE OrderWalk(_, _, _)
OrderWalk(ring, i, b0) ==
    IF i > Len(ring) THEN [ring |-> ring, b0 |-> b0]
    ELSE LET a == ring[i].a
             b == ring[i].b
             S == {j \in (i + 1) .. Len(ring) : ring[j].a = b /\ ring[j].b /= a}
             j == IF S = {} THEN 0 ELSE CHOOSE x \in S : \A y \in S : x <= y
             lastRead == IF j /= 0 THEN j ELSE Len(ring)
             nb0 == IF i + 1 <= Len(ring) THEN ring[lastRead].b ELSE b0
             spliced == IF j = 0 THEN ring
                        ELSE InsertAfter(RemoveAt(ring, j), i, ring[j])
         IN OrderWalk(spliced, i + 1, nb0)

\* The closedness test without its last part, the comparison of b0 with the
\* head of the list.
RingClosedNoWrap(ord, headA) ==
    \A i \in 1 .. (Len(ord.ring) - 1) : ord.ring[i].b = ord.ring[i + 1].a

\* Lines 374-409: the list is closed when every record's b is the next
\* record's a and the walk's last b0 is the a of the head.
RingClosed(ord, headA) ==
    /\ \A i \in 1 .. (Len(ord.ring) - 1) : ord.ring[i].b = ord.ring[i + 1].a
    /\ ord.b0 = headA

RECURSIVE createNeighborlist(_)
createNeighborlist(M0) ==
    LET M == destroyNeighborlist(M0)
        connected == {M.face[k].v1 : k \in Idx(M.nf)} \cup
                     {M.face[k].v2 : k \in Idx(M.nf)} \cup
                     {M.face[k].v3 : k \in Idx(M.nf)}
        marked == [n \in Idx(M.nv) |->
                     [M.vertex[n] EXCEPT !.marker = IF n \in connected THEN 0 ELSE -1]]
        numberConnected == Cardinality(connected)
    IN IF numberConnected < M.nv
       THEN createNeighborlist(removeUnconnectedVertices([M EXCEPT !.vertex = marked]))
       ELSE LET rings == CollectRings(M, 0, [n \in Idx(M.nv) |-> <<>>])
                ord == [n \in Idx(M.nv) |-> OrderWalk(rings[n], 1, -1)]
            IN [M EXCEPT
                  !.vertex = [n \in Idx(M.nv) |->
                      IF RingClosed(ord[n], rings[n][1].a) THEN marked[n]
                      ELSE [marked[n] EXCEPT !.selected = FALSE]],
                  !.nl = [n \in Idx(M.nv) |-> ord[n].ring],
                  !.hasNl = TRUE]

-----------------------------------------------------------------------------
(* Geometry kernel.  A point is <<x, y, z>>.  A cosine is kept as the pair   *)
(* [s, d] standing for sign(t) * t^2 = s / d, d > 0, which orders cosines    *)
(* exactly as the floats the code compares (t |-> sign(t) t^2 is monotone).  *)

Pos(V, n) == <<V[n].x, V[n].y, V[n].z>>

Sub(p, q) == <<p[1] - q[1], p[2] - q[2], p[3] - q[3]>>

Dot(u, v) == u[1] * v[1] + u[2] * v[2] + u[3] * v[3]

Cross(u, v) == <<u[2] * v[3] - u[3] * v[2],
                 u[3] * v[1] - u[1] * v[3],
                 u[1] * v[2] - u[2] * v[1]>>

SignedSquare(t) == IF t < 0 THEN -(t * t) ELSE t * t

CosKey(s, d) == [s |-> s, d |-> d]

CosGreater(k1, k2) == k1.s * k2.d > k2.s * k1.d

\* computeDotProduct(a, b, c): the cosine at a between the edges to b and c.
\* An edge of length 0 is left unnormalised, which makes the product 0.
computeDotProduct(V, a, b, c) ==
    LET u == Sub(Pos(V, b), Pos(V, a))
        v == Sub(Pos(V, c), Pos(V, a))
    IN IF Dot(u, u) = 0 \/ Dot(v, v) = 0 THEN CosKey(0, 1)
       ELSE CosKey(SignedSquare(Dot(u, v)), Dot(u, u) * Dot(v, v))

\* computeCrossProduct(a, b, c): the direction of hat(c - a) x hat(b - a); the
\* code normalises it when its length is > 0, so <<0,0,0>> stays <<0,0,0>>.
computeCrossProduct(V, a, b, c) ==
    Cross(Sub(Pos(V, c), Pos(V, a)), Sub(Pos(V, b), Pos(V, a)))

\* p / q > r / s for p, r >= 0 and q, s > 0, by comparing the integer parts
\* and then the reciprocals of the fractional parts: no product is formed.
RECURSIVE FracGreater(_, _, _, _)
FracGreater(p, q, r, s) ==
    LET a == p \div q
        b == r \div s
        x == p % q
        y == r % s
    IN IF a /= b THEN a > b
       ELSE IF x = 0 THEN FALSE
       ELSE IF y = 0 THEN TRUE
       ELSE FracGreater(s, y, q, x)

RidgeThousandths == 866

\* normal1 . normal2 > 0.866 for the unit vectors along n1 and n2.
DotAboveRidge(n1, n2) ==
    LET t == Dot(n1, n2)
        d == Dot(n1, n1) * Dot(n2, n2)
    IN /\ d > 0
       /\ t > 0
       /\ FracGreater(t * t, d, RidgeThousandths * RidgeThousandths, 1000 * 1000)

MaxCos4(k1, k2, k3, k4) ==
    LET m(p, q) == IF CosGreater(q, p) THEN q ELSE p
    IN m(m(m(k1, k2), k3), k4)

\* checkFlipAction with the ridge test left out.
checkFlipActionIgnoresRidges(V, a, b, c, d, preserveRidges) ==
    LET minAngle1 == MaxCos4(computeDotProduct(V, a, b, c), computeDotProduct(V, a, b, d),
                             computeDotProduct(V, b, a, c), computeDotProduct(V, b, a, d))
        minAngle2 == MaxCos4(computeDotProduct(V, c, a, d), computeDotProduct(V, c, b, d),
                             computeDotProduct(V, d, a, c), computeDotProduct(V, d, b, c))
    IN CosGreater(minAngle1, minAngle2)

\* checkFlipAction(a, b, c, d, preserveRidges), lines 982-1035: minAngle1 is
\* the largest cosine at a and b towards c and d, minAngle2 the largest cosine
\* at c and d towards a and b; the flip is allowed when minAngle1 > minAngle2
\* and, with preserveRidges, the normals of (a,c,b) and (a,b,d) are within
\* the 0.866 bound.
checkFlipAction(V, a, b, c, d, preserveRidges) ==
    LET minAngle1 == MaxCos4(computeDotProduct(V, a, b, c), computeDotProduct(V, a, b, d),
                             computeDotProduct(V, b, a, c), computeDotProduct(V, b, a, d))
        minAngle2 == MaxCos4(computeDotProduct(V, c, a, d), computeDotProduct(V, c, b, d),
                             computeDotProduct(V, d, a, c), computeDotProduct(V, d, b, c))
        normal1 == computeCrossProduct(V, a, c, b)
        normal2 == computeCrossProduct(V, a, b, d)
    IN /\ CosGreater(minAngle1, minAngle2)
       /\ (~preserveRidges \/ DotAboveRidge(normal1, normal2))

-----------------------------------------------------------------------------
(* edgeFlipping(n, preserveRidges), lines 1108-1311.  The walk state is      *)
(* [M, flips, fault, aux2]: the mesh, the flips committed so far, the fault  *)
(* the call ran into ("none" while it is well defined), and whether          *)
(* auxNeighbour2 has been assigned in this call.                             *)

NoFault == "none"

\* ax / numberIterations on the integer lattice of the model.
Centroid(V, ring) ==
    LET k == Len(ring)
        sum(f(_)) == SumOver(1 .. k, LAMBDA i : f(V[ring[i].a]))
    IN <<sum(LAMBDA p : p.x) \div k, sum(LAMBDA p : p.y) \div k, sum(LAMBDA p : p.z) \div k>>

MoveTo(V, n, p) == [V EXCEPT ![n].x = p[1], ![n].y = p[2], ![n].z = p[3]]

\* flipFlag without the two searches for an existing edge between a and c.
flipFlagDegreeOnly(nl, a, b, c) == Len(nl[b]) > 3

\* flipFlag without the count of b's list.
flipFlagAnyDegree(nl, a, b, c) ==
    /\ \A i \in 1 .. Len(nl[a]) : nl[a][i].a /= c
    /\ \A i \in 1 .. Len(nl[c]) : nl[c][i].a /= a

\* Lines 1164-1190: flipFlag.
flipFlag(nl, a, b, c) ==
    /\ Len(nl[b]) > 3
    /\ \A i \in 1 .. Len(nl[a]) : nl[a][i].a /= c
    /\ \A i \in 1 .. Len(nl[c]) : nl[c][i].a /= a

\* Lines 1253-1262 and 1280-1288: the record of a list that names the edge
\* (n, b) in either direction.
EdgeRecord(ring, n, b) ==
    LET S == {i \in 1 .. Len(ring) : \/ ring[i].a = n /\ ring[i].b = b
                                     \/ ring[i].a = b /\ ring[i].b = n}
    IN IF S = {} THEN 0 ELSE CHOOSE i \in S : \A j \in S : i <= j

\* Lines 1197-1305: the flip of edge (n, b) between first = ring[i] = (a, b, f1)
\* and second = ring[j] = (b, c, f2).
CommitFlip(S, n, i, j) ==
    LET M == S.M
        ring == M.nl[n]
        a == ring[i].a
        b == ring[i].b
        c == ring[j].b
        f1 == ring[i].c
        f2 == ring[j].c
        faces == [[M.face EXCEPT ![f1] = [@ EXCEPT !.v1 = n, !.v2 = a, !.v3 = c]]
                     EXCEPT ![f2] = [@ EXCEPT !.v1 = b, !.v2 = c, !.v3 = a]]
        nl1 == [M.nl EXCEPT ![n] = RemoveAt([ring EXCEPT ![i].b = c], j)]
        \* b's list: the record with b = n, and the one behind it
        kbs == {x \in 1 .. Len(nl1[b]) : nl1[b][x].b = n}
        kb == IF kbs = {} THEN 0 ELSE CHOOSE x \in kbs : \A y \in kbs : x <= y
        okb == kb /= 0 /\ nl1[b][kb].a = c
        nl2 == IF okb
               THEN [nl1 EXCEPT ![b] = RemoveAt([@ EXCEPT ![kb].b = a, ![kb].c = f2],
                                               IF kb = Len(@) THEN 1 ELSE kb + 1)]
               ELSE nl1
        aux2 == S.aux2 \/ okb
        \* a's list
        ka == EdgeRecord(nl2[a], n, b)
        oka == ka /= 0 /\ nl2[a][ka].a = b /\ nl2[a][ka].b = n
        nl3 == IF oka
               THEN [nl2 EXCEPT ![a] = InsertAfter([@ EXCEPT ![ka].b = c, ![ka].c = f2],
                                                  ka, Rec(c, n, f1))]
               ELSE nl2
        \* c's list
        kc == EdgeRecord(nl3[c], n, b)
        okc == kc /= 0 /\ nl3[c][kc].a = n /\ nl3[c][kc].b = b
        nl4 == IF okc /\ aux2
               THEN [nl3 EXCEPT ![c] = InsertAfter([@ EXCEPT ![kc].b = a, ![kc].c = f1],
                                                  kc, Rec(a, b, f2))]
               ELSE nl3
        flip(nl) == [n |-> n, a |-> a, b |-> b, c |-> c, f1 |-> f1, f2 |-> f2,
                     vertex |-> M.vertex, before |-> M.nl, faces |-> M.face,
                     found |-> okb, after |-> [face |-> faces, nl |-> nl]]
        done(nl, flt) == [S EXCEPT !.M = [M EXCEPT !.face = faces, !.nl = nl],
                                   !.flips = Append(@, flip(nl)),
                                   !.aux2 = aux2,
                                   !.fault = flt]
    IN IF kb = 0 THEN done(nl1, "nullRecord")          \* line 1229 reads nullptr->a
       ELSE IF ka = 0 THEN done(nl2, "nullRecord")     \* line 1265
       ELSE IF kc = 0 THEN done(nl3, "nullRecord")     \* line 1292
       ELSE IF okc /\ ~aux2 THEN done(nl3, "wildRecord") \* line 1296, auxNeighbour2 unset
       ELSE done(nl4, NoFault)

RECURSIVE FlipWalk(_, _, _, _)
FlipWalk(S, n, i, preserveRidges) ==
    LET M == S.M
        ring == M.nl[n]
        numberIterations == Len(ring)
    IN IF S.fault /= NoFault \/ i > numberIterations THEN S
       ELSE IF numberIterations <= 3
       THEN [S EXCEPT !.M.vertex = MoveTo(@, n, Centroid(@, ring))]
       ELSE LET j == IF i = numberIterations THEN 1 ELSE i + 1
                a == ring[i].a
                b == ring[i].b
                c == ring[j].b
            IN IF flipFlag(M.nl, a, b, c) /\ checkFlipAction(M.vertex, n, b, a, c, preserveRidges)
               THEN CHOOSE R \in {FlipWalk(T, n, IF j = 1 THEN numberIterations ELSE i + 1,
                                            preserveRidges) : T \in {CommitFlip(S, n, i, j)}} : TRUE
               ELSE FlipWalk(S, n, i + 1, preserveRidges)

\* edgeFlipping that gives up the last face slot when it has flipped.
edgeFlippingDropsFace(S, n, preserveRidges) ==
    LET R == FlipWalk([S EXCEPT !.aux2 = FALSE], n, 1, preserveRidges)
    IN IF R.flips = <<>> THEN R
       ELSE [R EXCEPT !.M.nf = @ - 1,
                      !.M.face = [k \in Idx(R.M.nf - 1) |-> R.M.face[k]]]

edgeFlipping(S, n, preserveRidges) == FlipWalk([S EXCEPT !.aux2 = FALSE], n, 1, preserveRidges)

-----------------------------------------------------------------------------
(* Angle statistics and relocation.                                          *)

\* The cosines of the whole degrees the model passes as angle targets.
CosOfDegrees(t) ==
    CASE t = 0 -> CosKey(1, 1)
      [] t = 30 -> CosKey(3, 4)
      [] t = 45 -> CosKey(1, 2)
      [] t = 60 -> CosKey(1, 4)
      [] t = 90 -> CosKey(0, 1)
      [] t = 120 -> CosKey(-1, 4)
      [] t = 135 -> CosKey(-1, 2)
      [] t = 150 -> CosKey(-3, 4)
      [] t = 180 -> CosKey(-1, 1)

\* getAngleBetweenVertices(a, b, c), as the cosine of the angle at a; the key
\* with d = 0 stands for the -999 returned when an edge at a has length 0.
getAngleBetweenVertices(V, a, b, c) ==
    LET u == Sub(Pos(V, a), Pos(V, b))
        v == Sub(Pos(V, a), Pos(V, c))
    IN IF Dot(u, u) = 0 \/ Dot(v, v) = 0 THEN CosKey(0, 0)
       ELSE CosKey(SignedSquare(Dot(u, v)), Dot(u, u) * Dot(v, v))

\* The angles getMinMaxAngles looks at: three per face, -999 left out.
FaceAngles(M) ==
    LET at(k) == {getAngleBetweenVertices(M.vertex, M.face[k].v1, M.face[k].v2, M.face[k].v3),
                  getAngleBetweenVertices(M.vertex, M.face[k].v2, M.face[k].v1, M.face[k].v3),
                  getAngleBetweenVertices(M.vertex, M.face[k].v3, M.face[k].v1, M.face[k].v2)}
    IN {k \in UNION {at(f) : f \in Idx(M.nf)} : k.d > 0}

\* cos 15 > cos theta for the key k of theta.  cos^2 15 = (2 + sqrt 3) / 4 is
\* not a fraction, so the comparison s / d < (2 + sqrt 3) / 4 is made as
\* 4 s - 2 d < sqrt 3 * d.
BelowCosOfFifteen(k) ==
    LET t == 4 * k.s - 2 * k.d
    IN k.s <= 0 \/ t <= 0 \/ 3 * k.d * k.d > t * t

\* getMinMaxAngles followed by the test of smooth (lines 1712 and 1759):
\* minAngle > maxMinAngle && maxAngle < minaMaxAngle.  minAngle starts at
\* 99999 and maxAngle at -99999, so a mesh without a measurable angle passes.
AnglesWithin(M, maxMinAngle, minaMaxAngle) ==
    \A k \in FaceAngles(M) :
        /\ IF maxMinAngle = 15 THEN BelowCosOfFifteen(k)
           ELSE CosGreater(CosOfDegrees(maxMinAngle), k)
        /\ CosGreater(k, CosOfDegrees(minaMaxAngle))

Abs(t) == IF t < 0 THEN -t ELSE t

RECURSIVE Gcd(_, _)
Gcd(p, q) == IF q = 0 THEN p ELSE Gcd(q, p % q)

\* u with its components divided by their greatest common divisor.
Direction(u) ==
    LET g == Gcd(Gcd(Abs(u[1]), Abs(u[2])), Abs(u[3]))
    IN <<u[1] \div g, u[2] \div g, u[3] \div g>>

\* The cosine between u and v is -1: both are non-zero and point in opposite
\* directions.  (An edge of length 0 makes computeDotProduct return 0.)
Opposite(u, v) ==
    /\ u /= <<0, 0, 0>>
    /\ v /= <<0, 0, 0>>
    /\ Direction(u) = <<-Direction(v)[1], -Direction(v)[2], -Direction(v)[3]>>

\* Lines 1323-1346: weight is the sum of 1 + cos over the ring, so it is > 0
\* unless the ring is empty or every term is 1 + (-1).
WeightPositive(M, n) ==
    LET ring == M.nl[n]
    IN \E i \in 1 .. Len(ring) :
          LET c == ring[IF i = Len(ring) THEN 1 ELSE i + 1].b
              u == Sub(Pos(M.vertex, ring[i].a), Pos(M.vertex, ring[i].b))
              v == Sub(Pos(M.vertex, c), Pos(M.vertex, ring[i].b))
          IN ~Opposite(u, v)

MaxCoord == 2

\* The positions a relocation may produce: the float result of lines 1348-1391
\* is abstracted to a neighbouring lattice point or to no movement.
Targets(p) ==
    {p} \cup {q \in {[p EXCEPT ![k] = @ + d] : k \in 1 .. 3, d \in {-2, 2}} :
                 \A k \in 1 .. 3 : q[k] >= -MaxCoord /\ q[k] <= MaxCoord}

\* moveVerticesAlongSurface(n): vertex n is written only when weight > 0.
moveVerticesAlongSurface(M, n, target) ==
    IF WeightPositive(M, n) THEN [M EXCEPT !.vertex = MoveTo(@, n, target)] ELSE M

-----------------------------------------------------------------------------
(* smoothNormal(n), lines 1395-1537.                                         *)

\* Lines 1421-1435: the record of b's list that names c and not n.
OuterRecord(ring, n, c) ==
    LET S == {i \in 1 .. Len(ring) : \/ ring[i].a = c /\ ring[i].b /= n
                                     \/ ring[i].b = c /\ ring[i].a /= n}
    IN IF S = {} THEN 0 ELSE CHOOSE i \in S : \A j \in S : i <= j

\* One turn of the loop at record i: "return" at an unselected b, "null" when
\* line 1438 reads the record that was not found, otherwise whether the turn
\* adds a position (lines 1452-1522: one of the three neighbouring normals
\* has a positive product with the normal of face (n, b, c)).
NormalTurn(M, n, i, guarded) ==
    LET ring == M.nl[n]
        k == Len(ring)
        j == IF i = k THEN 1 ELSE i + 1
        l == IF j = k THEN 1 ELSE j + 1
        a == ring[i].a
        b == ring[i].b
        c == ring[j].b
        d == ring[l].b
        x == OuterRecord(M.nl[b], n, c)
        e == IF M.nl[b][x].a = c /\ M.nl[b][x].b /= n THEN M.nl[b][x].b ELSE M.nl[b][x].a
        g == computeCrossProduct(M.vertex, n, b, c)
    IN IF guarded /\ ~M.vertex[b].selected THEN "return"
       ELSE IF x = 0 THEN "null"
       ELSE IF \/ Dot(computeCrossProduct(M.vertex, n, a, b), g) > 0
               \/ Dot(computeCrossProduct(M.vertex, n, c, d), g) > 0
               \/ Dot(computeCrossProduct(M.vertex, b, e, c), g) > 0
       THEN "adds"
       ELSE "none"

NormalWalk(M, n, target, guarded) ==
    LET k == Len(M.nl[n])
        stops == {i \in 1 .. k : NormalTurn(M, n, i, guarded) \in {"return", "null"}}
        first == CHOOSE i \in stops : \A j \in stops : i <= j
    IN IF stops /= {}
       THEN [M |-> M, fault |-> IF NormalTurn(M, n, first, guarded) = "null"
                                THEN "nullRecord" ELSE NoFault]
       ELSE IF \E i \in 1 .. k : NormalTurn(M, n, i, guarded) = "adds"
       THEN [M |-> [M EXCEPT !.vertex = MoveTo(@, n, target)], fault |-> NoFault]
       ELSE [M |-> M, fault |-> NoFault]

\* smoothNormal without the return at an unselected neighbour.
smoothNormalUnguarded(M, n, target) == NormalWalk(M, n, target, FALSE)

\* The position written at lines 1531-1536 comes out of rotate(); it is the
\* parameter target here.
smoothNormal(M, n, target) == NormalWalk(M, n, target, TRUE)

-----------------------------------------------------------------------------
(* coarse: eligibility, removal of one vertex, subdividePolygon.             *)

Sentinel == -99999

\* deleteFlag with the degree test auxNumber1 <= 2.
deleteFlagDegreeTwo(M, n) ==
    \A i \in 1 .. Len(M.nl[n]) :
        LET a == M.nl[n][i].a
            auxNumber1 == Len(M.nl[a])
            auxNumber2 == Cardinality({<<j, k>> \in (1 .. Len(M.nl[a])) \X (1 .. Len(M.nl[n])) :
                                          M.nl[n][k].a = M.nl[a][j].a})
        IN ~(auxNumber1 <= 2 \/ auxNumber2 > 2)

\* Lines 2125-2154: deleteFlag of a selected vertex n.  For every ring
\* neighbour a, auxNumber1 is the length of a's list and auxNumber2 counts the
\* pairs of a record of a and a record of n with the same a field.
deleteFlag(M, n) ==
    \A i \in 1 .. Len(M.nl[n]) :
        LET a == M.nl[n][i].a
            auxNumber1 == Len(M.nl[a])
            auxNumber2 == Cardinality({<<j, k>> \in (1 .. Len(M.nl[a])) \X (1 .. Len(M.nl[n])) :
                                          M.nl[n][k].a = M.nl[a][j].a})
        IN ~(auxNumber1 <= 3 \/ auxNumber2 > 2)

\* int maxLength = nx: the integer part of a square root.
ISqrt(d) == CHOOSE r \in 0 .. d : r * r <= d /\ (r + 1) * (r + 1) > d

SquaredLength(V, a, b) == Dot(Sub(Pos(V, a), Pos(V, b)), Sub(Pos(V, a), Pos(V, b)))

\* Lines 2176-2223 and 2249 for coarse(1.0, 0, densenessWeight > 0, -1): the
\* values ratio1 * ratio2 < coarsenessRate can take.  ratio1 is 1, maxLength
\* is an int and holds the integer part of the longest edge at n,
\* averageLengthNN the largest mean edge length of a face at n, and
\* pow(maxLength / averageLengthNN, densenessWeight) < 1 exactly when
\* 3 * maxLength < nx + ny + nn for some record.  The sum of square roots is
\* bracketed by integers; between the brackets both values are kept.
DenseBelowRate(M, n) ==
    LET ring == M.nl[n]
        V == M.vertex
        ends == {n} \cup {ring[i].a : i \in 1 .. Len(ring)} \cup {ring[i].b : i \in 1 .. Len(ring)}
        d(i) == <<SquaredLength(V, n, ring[i].a), SquaredLength(V, n, ring[i].b),
                  SquaredLength(V, ring[i].a, ring[i].b)>>
        floor(i) == ISqrt(d(i)[1]) + ISqrt(d(i)[2]) + ISqrt(d(i)[3])
        exact(i) == \A k \in 1 .. 3 : ISqrt(d(i)[k]) * ISqrt(d(i)[k]) = d(i)[k]
        ceil(i) == floor(i) + Cardinality({k \in 1 .. 3 : ISqrt(d(i)[k]) * ISqrt(d(i)[k]) /= d(i)[k]})
        lengths == {ISqrt(d(i)[1]) : i \in 1 .. Len(ring)} \cup {ISqrt(d(i)[2]) : i \in 1 .. Len(ring)}
        maxLength == CHOOSE m \in lengths : \A x \in lengths : x <= m
    IN IF \E v \in ends : V[v].x = Sentinel THEN BOOLEAN
       ELSE IF Len(ring) = 0 THEN {FALSE}       \* -1 / -1
       ELSE IF \E i \in 1 .. Len(ring) :
                  floor(i) > 3 * maxLength \/ (floor(i) = 3 * maxLength /\ ~exact(i))
       THEN {TRUE}
       ELSE IF \A i \in 1 .. Len(ring) : ceil(i) <= 3 * maxLength THEN {FALSE}
       ELSE BOOLEAN

\* getVertexNormal(v) is the zero vector exactly when every record of v's
\* list spans no area (lines 598-642: each term is normalised only when its
\* length is > 0, and a term never shortens the running sum).
ZeroNormal(M, v) ==
    \A i \in 1 .. Len(M.nl[v]) :
        Cross(Sub(Pos(M.vertex, M.nl[v][i].a), Pos(M.vertex, v)),
              Sub(Pos(M.vertex, M.nl[v][i].b), Pos(M.vertex, v))) = <<0, 0, 0>>

Around(M, S) == S \cup UNION {{M.nl[v][i].a : i \in 1 .. Len(M.nl[v])} : v \in S}

\* getEigenVector(n) leaves eigenValue.x = 0 exactly when the tensor summed
\* over the vertices within two steps of n (lines 662-733) is the zero matrix.
EigenValueZero(M, n) == \A v \in Around(M, Around(M, {n})) : ZeroNormal(M, v)

\* The cycle handed to subdividePolygon, front = startNeighbour: a sequence
\* of [a, b] with b the degree stored at line 2327.  The result is the
\* sequence of triangles in the order the base case emits them.
Rotate(cyc, i) == SubSeq(cyc, i, Len(cyc)) \o SubSeq(cyc, 1, i - 1)

\* The first position of least b among the positions in S (strict <, lines
\* 1607-1619 and 1621-1645).
LeastDegree(cyc, S) ==
    CHOOSE i \in S : \A j \in S : cyc[i].b < cyc[j].b \/ (cyc[i].b = cyc[j].b /\ i <= j)

RECURSIVE subdividePolygon(_)

\* subdividePolygon without its second recursive call (line 1670).
subdividePolygonOneSide(cyc) ==
    LET k == Len(cyc)
    IN IF k < 3 THEN <<>>
       ELSE IF k = 3 THEN << <<cyc[1].a, cyc[2].a, cyc[3].a>> >>
       ELSE LET first == LeastDegree(cyc, 1 .. k)
                next(i) == IF i = k THEN 1 ELSE i + 1
                second == LeastDegree(cyc, {i \in 1 .. k : i /= first /\ i /= next(first)
                                                              /\ next(i) /= first})
                bumped == [cyc EXCEPT ![first].b = @ + 1, ![second].b = @ + 1]
                rot == Rotate(bumped, first)
                q == IF second > first THEN second - first + 1 ELSE second + k - first + 1
            IN subdividePolygon(SubSeq(rot, 1, q))

subdividePolygon(cyc) ==
    LET k == Len(cyc)
    IN IF k < 3 THEN <<>>
       ELSE IF k = 3 THEN << <<cyc[1].a, cyc[2].a, cyc[3].a>> >>
       ELSE LET first == LeastDegree(cyc, 1 .. k)
                next(i) == IF i = k THEN 1 ELSE i + 1
                second == LeastDegree(cyc, {i \in 1 .. k : i /= first /\ i /= next(first)
                                                              /\ next(i) /= first})
                bumped == [cyc EXCEPT ![first].b = @ + 1, ![second].b = @ + 1]
                rot == Rotate(bumped, first)
                q == IF second > first THEN second - first + 1 ELSE second + k - first + 1
            IN subdividePolygon(SubSeq(rot, 1, q))
                 \o subdividePolygon(<<rot[1], rot[q]>> \o SubSeq(rot, q + 1, k))

\* Lines 1576-1602: the emitted triangle goes to the next available face slot
\* and its three records go to the front of the lists of a, b and c.
RECURSIVE EmitTriangles(_, _, _, _, _)
EmitTriangles(M, tris, faceAvailableList, j, faceMarker) ==
    IF j > Len(tris) THEN M
    ELSE LET a == tris[j][1]
             b == tris[j][2]
             c == tris[j][3]
             faceIndex == faceAvailableList[j]
             nl1 == [M.nl EXCEPT ![a] = <<Rec(b, c, faceIndex)>> \o @]
             nl2 == [nl1 EXCEPT ![b] = <<Rec(c, a, faceIndex)>> \o @]
             nl3 == [nl2 EXCEPT ![c] = <<Rec(a, b, faceIndex)>> \o @]
         IN EmitTriangles([M EXCEPT !.face[faceIndex] = [v1 |-> a, v2 |-> b, v3 |-> c,
                                                         marker |-> faceMarker],
                                    !.nl = nl3],
                          tris, faceAvailableList, j + 1, faceMarker)

\* Lines 2266-2329: the faces of n are deleted, the records naming n leave the
\* lists of its neighbours, and the record of neighbour a keeps a's degree.
RECURSIVE DetachVertex(_, _, _, _)
DetachVertex(M, n, i, cyc) ==
    IF i > Len(M.nl[n]) THEN [M |-> M, cyc |-> cyc]
    ELSE LET a == M.nl[n][i].a
             c == M.nl[n][i].c
             rest == SelectSeq(M.nl[a], LAMBDA r : r.a /= n /\ r.b /= n)
             M1 == [M EXCEPT !.face[c] = [v1 |-> -1, v2 |-> -1, v3 |-> -1, marker |-> -1],
                             !.nl[a] = rest]
         IN DetachVertex(M1, n, i + 1, Append(cyc, [a |-> a, b |-> Len(rest)]))

\* Lines 2341-2389: the lists of the former neighbours are put in order
\* again; line 2344 reads the head of the list without a null test.
RECURSIVE ReorderNeighbours(_, _, _)
ReorderNeighbours(S, neighborAuxList, m) ==
    IF m > Len(neighborAuxList) \/ S.fault /= NoFault THEN S
    ELSE LET v == neighborAuxList[m]
         IN IF S.M.nl[v] = <<>>
            THEN [S EXCEPT !.fault = "nullRecord"]
            ELSE ReorderNeighbours([S EXCEPT !.M.nl[v] = OrderWalk(@, 1, -1).ring],
                                   neighborAuxList, m + 1)

\* Lines 2392-2469: "smooth the neighbors".  The selected flag is read at
\* auxNumber2 before auxNumber2 is set to neighborAuxList[m].  pick is the
\* position whose relocation lands on target; S.visited collects the
\* vertices the loop body runs for, S.written those it writes.
RECURSIVE SmoothNeighbours(_, _, _, _, _, _)
SmoothNeighbours(S, neighborAuxList, m, auxNumber2, pick, target) ==
    IF m > Len(neighborAuxList) THEN S
    ELSE IF ~S.M.vertex[auxNumber2].selected
    THEN SmoothNeighbours(S, neighborAuxList, m + 1, auxNumber2, pick, target)
    ELSE LET v == neighborAuxList[m]
             S1 == IF WeightPositive(S.M, v)
                   THEN [S EXCEPT !.written = @ \cup {v},
                                  !.visited = @ \cup {v},
                                  !.M.vertex = IF m = pick THEN MoveTo(@, v, target) ELSE @]
                   ELSE [S EXCEPT !.visited = @ \cup {v}]
         IN SmoothNeighbours(S1, neighborAuxList, m + 1, v, pick, target)

\* Lines 2258-2469: vertex n is deleted and the hole is retriangulated.
RemoveVertex(M, n, pick, target) ==
    LET ring == M.nl[n]
        k == Len(ring)
        faceAvailableList == [i \in 1 .. k |-> ring[i].c]
        neighborAuxList == [i \in 1 .. k |-> ring[i].a]
        faceMarker == IF k > 0 THEN M.face[ring[k].c].marker ELSE 0
        gone == [M EXCEPT !.vertex = MoveTo(@, n, <<Sentinel, Sentinel, Sentinel>>)]
        D == DetachVertex(gone, n, 1, <<>>)
        tris == subdividePolygon(D.cyc)
        filled == EmitTriangles([D.M EXCEPT !.nl[n] = <<>>], tris, faceAvailableList, 1,
                                faceMarker)
        S0 == [M |-> filled, fault |-> NoFault, written |-> {}, visited |-> {}]
        S1 == ReorderNeighbours(S0, neighborAuxList, 1)
        S2 == IF S1.fault /= NoFault THEN S1
              ELSE SmoothNeighbours(S1, neighborAuxList, 1, 0, pick, target)
        freed == \E i \in 1 .. k : M.vertex[ring[i].a].x = Sentinel
        removal == [n |-> n, k |-> k, selected |-> M.vertex[n].selected,
                    ring |-> neighborAuxList, freed |-> faceAvailableList,
                    after |-> [i \in 1 .. k |-> filled.face[faceAvailableList[i]]],
                    ringSelected |-> [i \in 1 .. k |-> M.vertex[ring[i].a].selected],
                    completed |-> k > 0 /\ ~freed /\ S2.fault = NoFault,
                    visited |-> IF k > 0 /\ ~freed THEN S2.visited ELSE {},
                    written |-> IF k > 0 /\ ~freed THEN S2.written ELSE {}]
    IN IF k = 0
       THEN [M |-> gone, fault |-> "nullRecord", written |-> {}, removal |-> removal]  \* line 2332
       ELSE IF freed     \* line 2282 walks the list of a vertex deleted earlier in the pass
       THEN [M |-> gone, fault |-> "freedList", written |-> {}, removal |-> removal]
       ELSE [M |-> S2.M, fault |-> S2.fault, written |-> S2.written, removal |-> removal]

\* Lines 2479-2545: the tables are compacted and the records renumbered.
\* vertexIndexArray and faceIndexArray hold -1 for what was dropped.
Compact(M) ==
    LET alive(n) == /\ M.vertex[n].x /= Sentinel
                    /\ M.vertex[n].y /= Sentinel
                    /\ M.vertex[n].z /= Sentinel
        keptV == {n \in Idx(M.nv) : alive(n)}
        vertexIndexArray == [n \in Idx(M.nv) |->
            IF alive(n) THEN Cardinality({j \in keptV : j < n}) ELSE -1]
        via(a) == IF a \in Idx(M.nv) THEN vertexIndexArray[a] ELSE -1
        keptF == {k \in Idx(M.nf) :
                     /\ M.face[k].v1 >= 0 /\ M.face[k].v2 >= 0 /\ M.face[k].v3 >= 0
                     /\ via(M.face[k].v1) >= 0 /\ via(M.face[k].v2) >= 0
                     /\ via(M.face[k].v3) >= 0}
        faceIndexArray == [k \in Idx(M.nf) |->
            IF k \in keptF THEN Cardinality({j \in keptF : j < k}) ELSE -1]
        fia(c) == IF c \in Idx(M.nf) THEN faceIndexArray[c] ELSE -1
        srcV(i) == CHOOSE n \in keptV : vertexIndexArray[n] = i
        srcF(i) == CHOOSE k \in keptF : faceIndexArray[k] = i
        newNv == Cardinality(keptV)
        newNf == Cardinality(keptF)
    IN [M EXCEPT
          !.nv = newNv,
          !.nf = newNf,
          !.vertex = [i \in Idx(newNv) |-> M.vertex[srcV(i)]],
          !.face = [i \in Idx(newNf) |->
                       [M.face[srcF(i)] EXCEPT !.v1 = via(@), !.v2 = via(@), !.v3 = via(@)]],
          !.nl = [i \in Idx(newNv) |->
                     [j \in 1 .. Len(M.nl[srcV(i)]) |->
                         LET r == M.nl[srcV(i)][j]
                         IN Rec(via(r.a), via(r.b), fia(r.c))]]]

-----------------------------------------------------------------------------
(* refine(), lines 1810-1985: every edge gets a midpoint vertex, every face  *)
(* becomes four.                                                             *)

\* Lines 1838-1855: the edges counted at n are the records of n's list, in
\* list order, whose a is larger than n.
EdgesAt(M, n) ==
    LET up == SelectSeq(M.nl[n], LAMBDA r : n < r.a)
    IN [i \in 1 .. Len(up) |-> up[i].a]

Offsets(M, n) == SumOver(0 .. (n - 1), LAMBDA m : Len(EdgesAt(M, m)))

\* Lines 1922-1939: the vertex added on the edge between p and q.  The search
\* runs over the edges counted at the smaller index and, finding none, stops
\* at k = numberEdges[min].
MidVertex(M, p, q) ==
    LET lo == IF p < q THEN p ELSE q
        hi == IF p < q THEN q ELSE p
        k == Find(EdgesAt(M, lo), LAMBDA a : a = hi)
    IN M.nv + Offsets(M, lo) + (IF k = 0 THEN Len(EdgesAt(M, lo)) ELSE k - 1)

\* The tables of refinedOptimizationMesh at line 1967: the old vertices, the
\* midpoints 0.5 * (a + n) in edge order (exact for the even coordinates of
\* the meshes refined here), face n replaced by its mid face and three corner
\* faces appended per face.  The constructor leaves every vertex selected.
RefinedTables(M) ==
    LET totalNumberEdges == Offsets(M, M.nv)
        owner(e) == CHOOSE n \in Idx(M.nv) :
                        Offsets(M, n) <= e /\ e < Offsets(M, n) + Len(EdgesAt(M, n))
        mid(e) == LET n == owner(e)
                      a == EdgesAt(M, n)[e - Offsets(M, n) + 1]
                  IN Vtx((M.vertex[a].x + M.vertex[n].x) \div 2,
                         (M.vertex[a].y + M.vertex[n].y) \div 2,
                         (M.vertex[a].z + M.vertex[n].z) \div 2, TRUE)
        lv(n) == <<M.face[n].v1, M.face[n].v2, M.face[n].v3>>
        add(n) == [m \in 1 .. 3 |-> MidVertex(M, lv(n)[m], lv(n)[(m % 3) + 1])]
        corner(n, m) == Tri(lv(n)[m], add(n)[m], add(n)[((m + 1) % 3) + 1])
    IN [nv |-> M.nv + totalNumberEdges,
        nf |-> M.nf * 4,
        vertex |-> [i \in Idx(M.nv + totalNumberEdges) |->
                       IF i < M.nv THEN Vtx(M.vertex[i].x, M.vertex[i].y, M.vertex[i].z, TRUE)
                       ELSE mid(i - M.nv)],
        face |-> [k \in Idx(M.nf * 4) |->
                     IF k < M.nf THEN Tri(add(k)[1], add(k)[2], add(k)[3])
                     ELSE corner((k - M.nf) \div 3, ((k - M.nf) % 3) + 1)],
        \* lines 1880-1910: slot e of vertex2edge, with the vertex it was filled at
        edgeOf |-> [e \in Idx(totalNumberEdges) |->
                       <<owner(e), EdgesAt(M, owner(e))[e - Offsets(M, owner(e)) + 1]>>]]

-----------------------------------------------------------------------------
(* The meshes handed to the constructor (lines 84-146): every vertex         *)
(* selected, no adjacency yet.                                               *)

Input(points, triangles) ==
    Mesh(Len(points), Len(triangles),
         Table([i \in 1 .. Len(points) |->
                   Vtx(points[i][1], points[i][2], points[i][3], TRUE)]),
         Table([i \in 1 .. Len(triangles) |->
                   Tri(triangles[i][1], triangles[i][2], triangles[i][3])]),
         NoRings, FALSE)

OctaFaces == << <<0, 2, 4>>, <<2, 1, 4>>, <<1, 3, 4>>, <<3, 0, 4>>,
                <<2, 0, 5>>, <<1, 2, 5>>, <<3, 1, 5>>, <<0, 3, 5>> >>

\* A closed surface: six vertices of degree 4.
Octahedron ==
    Input(<< <<2, 0, 0>>, <<-2, 0, 0>>, <<0, 2, 0>>, <<0, -2, 0>>, <<0, 0, 2>>, <<0, 0, -2>> >>,
          OctaFaces)

\* The same connectivity with vertices 0 and 1 pulled next to each other above
\* vertex 4: the faces around the edge 4-2 are slivers.
FoldedOctahedron ==
    Input(<< <<2, 0, 2>>, <<2, -2, 2>>, <<0, 2, 0>>, <<0, -2, 0>>, <<0, 0, 2>>, <<0, 0, -2>> >>,
          OctaFaces)

\* The same connectivity with the faces around vertex 4 in one plane.
FlatOctahedron ==
    Input(<< <<2, 0, 0>>, <<-2, 0, 0>>, <<-2, -2, 0>>, <<0, -2, 0>>, <<2, 2, 0>>, <<0, 0, -2>> >>,
          OctaFaces)

\* The same connectivity with vertex 0 above a line that holds the other five.
ApexOctahedron ==
    Input(<< <<0, 2, 0>>, <<0, 0, 0>>, <<-2, 0, 0>>, <<2, 0, 0>>, <<-1, 0, 0>>, <<1, 0, 0>> >>,
          OctaFaces)

\* The same connectivity with all six points on one line: every face has
\* area 0.
CollinearOctahedron ==
    Input(<< <<2, 0, 0>>, <<-2, 0, 0>>, <<1, 0, 0>>, <<-1, 0, 0>>, <<0, 0, 0>>, <<0, 0, 0>> >>,
          OctaFaces)

Tetrahedron ==
    Input(<< <<2, 2, 2>>, <<2, -2, -2>>, <<-2, 2, -2>>, <<-2, -2, 2>> >>,
          << <<0, 1, 2>>, <<0, 3, 1>>, <<0, 2, 3>>, <<1, 3, 2>> >>)

\* A hexagonal fan closed by a second apex: vertices 0 and 7 see the six rim
\* vertices 1..6, which have degree 4.
HexagonalBipyramid ==
    Input(<< <<0, 0, 2>>, <<2, 0, 0>>, <<1, 2, 0>>, <<-1, 2, 0>>,
             <<-2, 0, 0>>, <<-1, -2, 0>>, <<1, -2, 0>>, <<0, 0, -2>> >>,
          << <<0, 1, 2>>, <<0, 2, 3>>, <<0, 3, 4>>, <<0, 4, 5>>, <<0, 5, 6>>, <<0, 6, 1>>,
             <<7, 2, 1>>, <<7, 3, 2>>, <<7, 4, 3>>, <<7, 5, 4>>, <<7, 6, 5>>, <<7, 1, 6>> >>)

\* An open fan: centre 0 with six rim vertices on the boundary.
HexagonalFan ==
    Input(<< <<0, 0, 0>>, <<2, 0, 0>>, <<1, 2, 0>>, <<-1, 2, 0>>,
             <<-2, 0, 0>>, <<-1, -2, 0>>, <<1, -2, 0>> >>,
          << <<0, 1, 2>>, <<0, 2, 3>>, <<0, 3, 4>>, <<0, 4, 5>>, <<0, 5, 6>>, <<0, 6, 1>> >>)

\* The tetrahedron without its face (1, 3, 2): vertices 1, 2, 3 are on the
\* boundary.
OpenTetrahedron ==
    Input(<< <<2, 2, 2>>, <<2, -2, -2>>, <<-2, 2, -2>>, <<-2, -2, 2>> >>,
          << <<0, 1, 2>>, <<0, 3, 1>>, <<0, 2, 3>> >>)

\* A tetrahedron with one vertex (index 1) no face refers to.
\* The octahedron with one more face hanging on vertex 0: the faces at
\* vertex 0 no longer form one ring.
SnaggedOctahedron ==
    Input(<< <<2, 0, 0>>, <<-2, 0, 0>>, <<0, 2, 0>>, <<0, -2, 0>>, <<0, 0, 2>>, <<0, 0, -2>>,
             <<2, 2, 0>>, <<2, 0, 2>> >>,
          OctaFaces \o << <<0, 6, 7>> >>)

LooseVertex ==
    Input(<< <<2, 2, 2>>, <<0, 0, 0>>, <<2, -2, -2>>, <<-2, 2, -2>>, <<-2, -2, 2>> >>,
          << <<0, 2, 3>>, <<0, 4, 2>>, <<0, 3, 4>>, <<2, 4, 3>> >>)

\* A patch with a boundary: vertex 0 is interior (ring 1, 2, 4, 3), vertex 1
\* is on the boundary with four faces, and the edge 0-1 is the long diagonal
\* of the kite 1, 2, 0, 3.
BoundaryKite ==
    Input(<< <<0, 2, 0>>, <<0, -2, 0>>, <<-1, 0, 0>>, <<1, 0, 0>>, <<0, 2, 2>>,
             <<-2, -2, 0>>, <<2, -2, 0>> >>,
          << <<1, 5, 2>>, <<1, 2, 0>>, <<1, 0, 3>>, <<1, 3, 6>>, <<0, 4, 3>>, <<0, 2, 4>> >>)

\* A patch with a boundary: vertex 0 is interior with the ring 1, 2, 3; each
\* of these is on the boundary and has four faces.
BoundaryStar ==
    Input(<< <<0, 0, 1>>, <<2, 0, 0>>, <<-1, 2, 0>>, <<-1, -2, 0>>,
             <<2, 2, 0>>, <<-2, 0, 0>>, <<2, -2, 0>> >>,
          << <<0, 1, 2>>, <<0, 2, 3>>, <<0, 3, 1>>, <<2, 1, 4>>, <<3, 2, 5>>, <<1, 3, 6>> >>)

\* A tetrahedron with two vertices (indices 1 and 3) no face refers to.
TwoLooseVertices ==
    Input(<< <<2, 2, 2>>, <<0, 0, 0>>, <<2, -2, -2>>, <<0, 0, 2>>, <<-2, 2, -2>>, <<-2, -2, 2>> >>,
          << <<0, 2, 4>>, <<0, 5, 2>>, <<0, 4, 5>>, <<2, 5, 4>> >>)

Inputs == {Octahedron, FoldedOctahedron, FlatOctahedron, ApexOctahedron,
           CollinearOctahedron, Tetrahedron, OpenTetrahedron, HexagonalFan,
           HexagonalBipyramid, LooseVertex, TwoLooseVertices, BoundaryKite, BoundaryStar}

-----------------------------------------------------------------------------
(* State.                                                                    *)

Cur == Mesh(numberVertices, numberFaces, vertex, face,
            neighborList.ring, neighborList.attached)

Store(M) ==
    /\ numberVertices' = M.nv
    /\ numberFaces' = M.nf
    /\ vertex' = M.vertex
    /\ face' = M.face
    /\ neighborList' = [attached |-> M.hasNl, ring |-> M.nl]

MaxOps == 2

MaxMoves == 1

NoArgs == [op |-> "none"]

NoLoop == [i |-> 0, n |-> 0, smoothed |-> FALSE, running |-> FALSE]

NoLog == [op |-> "none"]

InitWith(S) ==
    /\ \E M \in S :
          /\ numberVertices = M.nv
          /\ numberFaces = M.nf
          /\ vertex = M.vertex
          /\ face = M.face
          /\ neighborList = [attached |-> FALSE, ring |-> NoRings]
    /\ pc = "idle"
    /\ args = NoArgs
    /\ loop = NoLoop
    /\ log = NoLog
    /\ fault = NoFault
    /\ opCount = 0
    /\ budget = MaxMoves

Init == InitWith(Inputs)

InitSmooth == InitWith({FoldedOctahedron, FlatOctahedron, HexagonalFan, Tetrahedron,
                        LooseVertex, BoundaryKite})

InitCoarse == InitWith({ApexOctahedron, HexagonalFan, HexagonalBipyramid, Tetrahedron,
                        BoundaryStar})

InitRefine == InitWith({Octahedron, Tetrahedron, OpenTetrahedron, LooseVertex})

\* Tables a coarse pass left without compaction: a deleted vertex keeps the
\* sentinel coordinates and a freed list, a deleted face the indices -1.
Stale(M) ==
    \/ \E n \in Idx(M.nv) : M.vertex[n].x = Sentinel
    \/ \E k \in Idx(M.nf) : M.face[k].v1 < 0

\* Lists in which compaction wrote the index -1 (lines 2539-2541) for a vertex
\* or a face that is gone.
StaleRings(M) ==
    /\ M.hasNl
    /\ \E n \in Idx(M.nv) : \E i \in 1 .. Len(M.nl[n]) :
          M.nl[n][i].a < 0 \/ M.nl[n][i].b < 0 \/ M.nl[n][i].c < 0

\* Any operation started on such tables indexes vertex[] with (unsigned) -1
\* (lines 262, 1048, 2060) or walks a freed list (line 2126); smooth and
\* coarse started on such lists index vertex[] and neighborList[] with -1.
CallOnStaleTables ==
    /\ pc = "idle"
    /\ opCount < MaxOps
    /\ Stale(Cur) \/ StaleRings(Cur)
    /\ pc' = "fault"
    /\ fault' = "staleTables"
    /\ opCount' = opCount + 1
    /\ UNCHANGED <<numberVertices, numberFaces, vertex, face, neighborList,
                   args, loop, log, budget>>

\* Where a call returns to: the statement after the call in the member
\* function that made it (args.caller), or the user of the mesh.
ReturnTo == IF "caller" \in DOMAIN args THEN args.caller ELSE "idle"

\* createNeighborlist() called from outside.
CreateNeighborlist ==
    /\ pc = "idle"
    /\ opCount < MaxOps
    /\ ~Stale(Cur)
    /\ Store(createNeighborlist(Cur))
    /\ log' = [op |-> "createNeighborlist", before |-> vertex, faces |-> face]
    /\ opCount' = opCount + 1
    /\ UNCHANGED <<pc, args, loop, fault, budget>>

-----------------------------------------------------------------------------
(* smooth(maxMinAngle, minaMaxAngle, maximumIterations, preserveRidges),     *)
(* lines 1674-1764, one action per step of its loops.                        *)

AngleTargets == {<<30, 150>>, <<60, 120>>}

MaxIterations == 2

\* Lines 1680-1713: the adjacency is built when missing, the angles are
\* measured, the loop condition is evaluated for the first time.
SmoothCall ==
    /\ pc = "idle"
    /\ opCount < MaxOps
    /\ ~Stale(Cur) /\ ~StaleRings(Cur)
    /\ \E t \in AngleTargets, k \in 0 .. MaxIterations, ridges \in BOOLEAN :
          LET M == IF neighborList.attached THEN Cur ELSE createNeighborlist(Cur)
          IN /\ Store(M)
             /\ args' = [op |-> "smooth", maxMinAngle |-> t[1], minaMaxAngle |-> t[2],
                         maximumIterations |-> k, preserveRidges |-> ridges]
             /\ loop' = [i |-> 0, n |-> 0, running |-> FALSE,
                         smoothed |-> AnglesWithin(M, t[1], t[2])]
    /\ pc' = "smooth"
    /\ log' = [op |-> "smooth", flips |-> <<>>, returned |-> FALSE, result |-> FALSE,
                passes |-> 0, moved |-> {},
                start |-> IF neighborList.attached THEN Cur ELSE createNeighborlist(Cur),
                entry |-> [nv |-> numberVertices, nf |-> numberFaces, face |-> face]]
    /\ opCount' = opCount + 1
    /\ UNCHANGED <<fault, budget>>

\* The loop head without its iteration limit: while (!smoothed) { i++; ...
SmoothPassUnbounded ==
    /\ pc = "smooth"
    /\ ~loop.running
    /\ ~loop.smoothed
    /\ loop' = [loop EXCEPT !.i = @ + 1, !.n = 0, !.running = numberVertices > 0,
                            !.smoothed = IF numberVertices > 0 THEN @
                                         ELSE AnglesWithin(Cur, args.maxMinAngle,
                                                           args.minaMaxAngle)]
    /\ log' = [log EXCEPT !.passes = @ + 1]
    /\ UNCHANGED <<numberVertices, numberFaces, vertex, face, neighborList,
                   pc, args, fault, opCount, budget>>

\* Line 1713-1715: while (!smoothed && i < maximumIterations) { i++; ...
SmoothPass ==
    /\ pc = "smooth"
    /\ ~loop.running
    /\ ~loop.smoothed
    /\ loop.i < args.maximumIterations
    /\ loop' = [loop EXCEPT !.i = @ + 1, !.n = 0, !.running = numberVertices > 0,
                            !.smoothed = IF numberVertices > 0 THEN @
                                         ELSE AnglesWithin(Cur, args.maxMinAngle,
                                                           args.minaMaxAngle)]
    /\ log' = [log EXCEPT !.passes = @ + 1]
    /\ UNCHANGED <<numberVertices, numberFaces, vertex, face, neighborList,
                   pc, args, fault, opCount, budget>>

\* Lines 1718-1729, one vertex; behind the last vertex of the pass, lines
\* 1732-1760: the angles are measured again.
SmoothVertex ==
    /\ pc = "smooth"
    /\ loop.running
    /\ LET n == loop.n
           last == n + 1 = numberVertices
           finish(M) == [loop EXCEPT !.n = n + 1, !.running = ~last,
                            !.smoothed = IF last
                                         THEN AnglesWithin(M, args.maxMinAngle, args.minaMaxAngle)
                                         ELSE @]
       IN IF ~vertex[n].selected
          THEN /\ loop' = finish(Cur)
               /\ UNCHANGED <<numberVertices, numberFaces, vertex, face, neighborList,
                              pc, log, fault, budget>>
          ELSE \E target \in (IF budget > 0 THEN Targets(Pos(vertex, n)) ELSE {Pos(vertex, n)}) :
               \E moved \in {moveVerticesAlongSurface(Cur, n, target)} :
               \E S \in {edgeFlipping([M |-> moved, flips |-> <<>>, fault |-> NoFault,
                                       aux2 |-> FALSE], n, args.preserveRidges)} :
                  /\ Store(S.M)
                  /\ fault' = S.fault
                  /\ pc' = IF S.fault = NoFault THEN pc ELSE "fault"
                  /\ loop' = finish(S.M)
                  /\ log' = [log EXCEPT !.flips = S.flips,
                                        !.moved = IF S.M.vertex[n] /= vertex[n]
                                                  THEN @ \cup {n} ELSE @]
                  /\ budget' = IF moved.vertex /= vertex THEN budget - 1 ELSE budget
    /\ UNCHANGED <<args, opCount>>

\* Line 1763: return smoothed.
SmoothReturn ==
    /\ pc = "smooth"
    /\ ~loop.running
    /\ loop.smoothed \/ loop.i >= args.maximumIterations
    /\ pc' = "idle"
    /\ log' = [log EXCEPT !.returned = TRUE, !.result = loop.smoothed]
    /\ UNCHANGED <<numberVertices, numberFaces, vertex, face, neighborList,
                   args, loop, fault, opCount, budget>>

\* edgeFlipping(n, preserveRidges) called from outside.  Without the
\* adjacency line 1122 reads neighborList[n] through a null pointer.
EdgeFlipping ==
    /\ pc = "idle"
    /\ opCount < MaxOps
    /\ ~Stale(Cur) /\ ~StaleRings(Cur)
    /\ \E n \in Idx(numberVertices), ridges \in BOOLEAN :
          /\ args' = [op |-> "edgeFlipping", n |-> n, preserveRidges |-> ridges]
          /\ IF ~neighborList.attached
             THEN /\ pc' = "fault"
                  /\ fault' = "nullList"
                  /\ log' = [op |-> "edgeFlipping", flips |-> <<>>]
                  /\ UNCHANGED <<numberVertices, numberFaces, vertex, face, neighborList>>
             ELSE \E S \in {edgeFlipping([M |-> Cur, flips |-> <<>>, fault |-> NoFault,
                                          aux2 |-> FALSE], n, ridges)} :
                     /\ Store(S.M)
                     /\ fault' = S.fault
                     /\ pc' = IF S.fault = NoFault THEN pc ELSE "fault"
                     /\ log' = [op |-> "edgeFlipping", flips |-> S.flips]
    /\ opCount' = opCount + 1
    /\ UNCHANGED <<loop, budget>>

NextSmooth ==
    \/ CreateNeighborlist
    \/ EdgeFlipping
    \/ SmoothCall
    \/ SmoothPass
    \/ SmoothVertex
    \/ SmoothReturn

SpecSmooth == InitSmooth /\ [][NextSmooth]_vars

-----------------------------------------------------------------------------
(* coarse(coarsenessRate, flatnessRate, densenessWeight, maxNormalAngle),    *)
(* lines 2020-2561, one action per step of its vertex loop.                  *)

MaxGarbage == 1

\* Lines 2026-2157: the adjacency is built when missing and deleteFlags is
\* filled.  new bool[numberVertices] is not initialised and the pre-pass
\* skips a vertex that is not selected, so that vertex's flag is whatever the
\* allocation held: garbage is the set of such vertices whose flag reads true.
CoarseCall ==
    /\ pc = "idle"
    /\ opCount < MaxOps
    /\ ~Stale(Cur) /\ ~StaleRings(Cur)
    /\ \E flatnessRate \in {0, 1} :
          LET M == IF neighborList.attached THEN Cur ELSE createNeighborlist(Cur)
              unset == {n \in Idx(M.nv) : ~M.vertex[n].selected}
          IN \E garbage \in {G \in SUBSET unset : Cardinality(G) <= MaxGarbage} :
                /\ Store(M)
                /\ args' = [op |-> "coarse", flatnessRate |-> flatnessRate,
                            densenessWeight |-> 0]
                /\ loop' = [n |-> 0, stop |-> 0,
                            deleteFlags |-> [n \in Idx(M.nv) |->
                                IF M.vertex[n].selected THEN deleteFlag(M, n)
                                ELSE n \in garbage]]
                /\ log' = [op |-> "coarse", removed |-> <<>>, before |-> <<>>, written |-> {}, early |-> FALSE,
                           returned |-> FALSE, result |-> <<>>,
                           vertices |-> M.nv, faces |-> M.nf,
                           start |-> M,
                           selected |-> [n \in Idx(M.nv) |-> M.vertex[n].selected]]
    /\ pc' = "coarse"
    /\ opCount' = opCount + 1
    /\ UNCHANGED <<fault, budget>>

\* Lines 2159-2474, one vertex.  Without the denseness weight the test
\* ratio1 * ratio2 < coarsenessRate (and maxAngle > maxNormalAngle) is a free
\* choice here: deleteVertex.
CoarseVertex ==
    /\ pc = "coarse"
    /\ loop.n < numberVertices
    /\ LET n == loop.n
           skip == /\ loop' = [loop EXCEPT !.n = n + 1]
                   /\ UNCHANGED <<numberVertices, numberFaces, vertex, face, neighborList,
                                  pc, log, fault, budget>>
       IN IF ~loop.deleteFlags[n] THEN skip
          ELSE IF args.flatnessRate > 0 /\ EigenValueZero(Cur, n)
          THEN \* lines 2232-2236: return 0 from inside the loop
               /\ pc' = ReturnTo
               /\ log' = [log EXCEPT !.early = TRUE, !.returned = TRUE, !.result = <<0>>]
               /\ UNCHANGED <<numberVertices, numberFaces, vertex, face, neighborList,
                              loop, fault, budget>>
          ELSE \E deleteVertex \in (IF args.densenessWeight > 0
                                     THEN DenseBelowRate(Cur, n) ELSE BOOLEAN) :
                  IF ~deleteVertex THEN skip
                  ELSE \E pick \in 0 .. (IF budget > 0 THEN Len(neighborList.ring[n]) ELSE 0) :
                       \E target \in (IF pick = 0 THEN {<<0, 0, 0>>}
                                      ELSE Targets(Pos(vertex, neighborList.ring[n][pick].a))
                                             \ {Pos(vertex, neighborList.ring[n][pick].a)}) :
                       \E R \in {RemoveVertex(Cur, n, pick, target)} :
                             /\ Store(R.M)
                             /\ fault' = R.fault
                             /\ pc' = IF R.fault = NoFault THEN pc ELSE "fault"
                             /\ loop' = [loop EXCEPT !.n = n + 1]
                             /\ log' = [log EXCEPT !.removed = Append(@, R.removal),
                                                   !.before = Append(@, neighborList.ring),
                                                   !.written = @ \cup R.written]
                             /\ budget' = IF pick /= 0 /\ R.M.vertex /= RemoveVertex(Cur, n, 0, target).M.vertex
                                          THEN budget - 1 ELSE budget
    /\ UNCHANGED <<args, opCount>>

\* Lines 2476-2560: compaction, then return stop (always 0).
CoarseCompact ==
    /\ pc = "coarse"
    /\ loop.n >= numberVertices
    /\ Store(Compact(Cur))
    /\ pc' = ReturnTo
    /\ log' = [log EXCEPT !.returned = TRUE, !.result = <<loop.stop>>]
    /\ UNCHANGED <<args, loop, fault, opCount, budget>>

NextCoarse ==
    CreateNeighborlist \/ CallOnStaleTables \/ CoarseCall \/ CoarseVertex \/ CoarseCompact

SpecCoarse == InitCoarse /\ [][NextCoarse]_vars

\* coarse(1.0, 0, 10, -1): the call that weighs the local edge lengths only.
\* Lines 2053-2105 return at once from a mesh without faces.
CoarseDense ==
    /\ pc = "idle"
    /\ opCount < MaxOps
    /\ ~Stale(Cur) /\ ~StaleRings(Cur)
    /\ LET M == IF neighborList.attached THEN Cur ELSE createNeighborlist(Cur)
           unset == {n \in Idx(M.nv) : ~M.vertex[n].selected}
       IN \E garbage \in {G \in SUBSET unset : Cardinality(G) <= MaxGarbage} :
             /\ Store(M)
             /\ args' = [op |-> "coarse", flatnessRate |-> 0, densenessWeight |-> 10]
             /\ loop' = [n |-> 0, stop |-> 0,
                         deleteFlags |-> [n \in Idx(M.nv) |->
                             IF M.vertex[n].selected THEN deleteFlag(M, n)
                             ELSE n \in garbage]]
             /\ log' = [op |-> "coarse", removed |-> <<>>, before |-> <<>>, written |-> {}, early |-> FALSE,
                        returned |-> M.nf = 0,
                        result |-> IF M.nf = 0 THEN <<0>> ELSE <<>>,
                        vertices |-> M.nv, faces |-> M.nf,
                        start |-> M,
                        selected |-> [n \in Idx(M.nv) |-> M.vertex[n].selected]]
             /\ pc' = IF M.nf = 0 THEN "idle" ELSE "coarse"
    /\ opCount' = opCount + 1
    /\ UNCHANGED <<fault, budget>>

InitDense == InitWith({Octahedron, HexagonalBipyramid, ApexOctahedron, Tetrahedron})

NextDense == CreateNeighborlist \/ CoarseDense \/ CoarseVertex \/ CoarseCompact

SpecDense == InitDense /\ [][NextDense]_vars

-----------------------------------------------------------------------------
(* smoothNormals(maxMinAngle, minMaxAngle), lines 1766-1808, one action per  *)
(* vertex of its loop.                                                       *)

\* Lines 1771-1781: the adjacency is built when missing.
SmoothNormalsCall ==
    /\ pc = "idle"
    /\ opCount < MaxOps
    /\ ~Stale(Cur) /\ ~StaleRings(Cur)
    /\ LET M == IF neighborList.attached THEN Cur ELSE createNeighborlist(Cur)
       IN /\ Store(M)
          /\ pc' = IF M.hasNl THEN "smoothNormals" ELSE "idle"
          /\ log' = [op |-> "smoothNormals", returned |-> ~M.hasNl, entry |-> Cur,
                     start |-> M]
    /\ args' = [op |-> "smoothNormals"]
    /\ loop' = [n |-> 0]
    /\ opCount' = opCount + 1
    /\ UNCHANGED <<fault, budget>>

\* Lines 1784-1790, one vertex.
SmoothNormalVertex ==
    /\ pc = "smoothNormals"
    /\ loop.n < numberVertices
    /\ LET n == loop.n
       IN IF ~vertex[n].selected
          THEN UNCHANGED <<numberVertices, numberFaces, vertex, face, neighborList,
                           pc, fault, budget>>
          ELSE \E target \in (IF budget > 0 THEN Targets(Pos(vertex, n)) ELSE {Pos(vertex, n)}) :
               \E R \in {smoothNormal(Cur, n, target)} :
                  /\ Store(R.M)
                  /\ fault' = R.fault
                  /\ pc' = IF R.fault = NoFault THEN pc ELSE "fault"
                  /\ budget' = IF R.M.vertex /= vertex THEN budget - 1 ELSE budget
    /\ loop' = [loop EXCEPT !.n = @ + 1]
    /\ UNCHANGED <<args, log, opCount>>

\* Lines 1793-1807: the angles are measured and printed.
SmoothNormalsReturn ==
    /\ pc = "smoothNormals"
    /\ loop.n >= numberVertices
    /\ pc' = "idle"
    /\ log' = [log EXCEPT !.returned = TRUE]
    /\ UNCHANGED <<numberVertices, numberFaces, vertex, face, neighborList,
                   args, loop, fault, opCount, budget>>

InitNormals == InitWith({Octahedron, SnaggedOctahedron, Tetrahedron, BoundaryKite, LooseVertex})

NextNormals ==
    CreateNeighborlist \/ SmoothNormalsCall \/ SmoothNormalVertex \/ SmoothNormalsReturn

SpecNormals == InitNormals /\ [][NextNormals]_vars

-----------------------------------------------------------------------------
(* refine(), lines 1810-1985, as one action.                                 *)

MaxRefineFaces == 8

\* The unordered vertex pairs that share a face.
UniqueEdges(M) ==
    UNION {{{M.face[k].v1, M.face[k].v2}, {M.face[k].v2, M.face[k].v3},
            {M.face[k].v3, M.face[k].v1}} : k \in Idx(M.nf)}

\* Every edge lies on exactly two faces and every list is one closed cycle.
ClosedManifold(M) ==
    /\ \A e \in UniqueEdges(M) :
          Cardinality({k \in Idx(M.nf) :
              e \subseteq {M.face[k].v1, M.face[k].v2, M.face[k].v3}}) = 2
    /\ \A n \in Idx(M.nv) :
          /\ Len(M.nl[n]) >= 3
          /\ \A i \in 1 .. Len(M.nl[n]) :
                M.nl[n][i].b = M.nl[n][IF i = Len(M.nl[n]) THEN 1 ELSE i + 1].a
          /\ \A i, j \in 1 .. Len(M.nl[n]) : M.nl[n][i].a = M.nl[n][j].a => i = j

\* The allocations refine() handles, in the order it releases them: line 1971
\* (releaseOptimizationMeshData) deletes the tables of this mesh, line 1980
\* (the destructor of refinedOptimizationMesh, lines 150-154) deletes the
\* tables built for the refined mesh.  The mesh points at the latter from
\* lines 1976-1977 on.
RefineStorage ==
    [released |-> <<"original", "refined">>, adopted |-> "refined"]

\* Line 1971 deletes the old tables, lines 1976-1977 adopt the tables of
\* refinedOptimizationMesh, line 1980 deletes that object and with it the
\* adopted tables, and line 1983 builds the adjacency from the freed memory.
\* What that read yields is not defined: the tables as they were written
\* ("intact"), a face slot the allocator has written over ("garbled": its v1
\* and v2 read as the same old index w), or no return at all ("crash").
Refine ==
    /\ pc = "idle"
    /\ opCount < MaxOps
    /\ ~Stale(Cur) /\ ~StaleRings(Cur)
    /\ numberFaces <= MaxRefineFaces
    /\ LET M == IF neighborList.attached THEN Cur ELSE createNeighborlist(Cur)
           R == RefinedTables(M)
           adopted == Mesh(R.nv, R.nf, R.vertex, R.face, NoRings, FALSE)
           inRange == \A k \in Idx(R.nf) :
                         R.face[k].v1 < R.nv /\ R.face[k].v2 < R.nv /\ R.face[k].v3 < R.nv
           entry(outcome) == [op |-> "refine", outcome |-> outcome,
                              vertices |-> M.nv, faces |-> M.nf,
                              edges |-> Cardinality(UniqueEdges(M)),
                              closed |-> ClosedManifold(M),
                              old |-> M.vertex, oldFaces |-> M.face, rings |-> M.nl,
                              built |-> R, storage |-> RefineStorage]
           crash == /\ Store(adopted)
                    /\ pc' = "fault"
                    /\ fault' = "useAfterFree"
                    /\ log' = entry("crash")
           intact == /\ inRange
                     /\ Store(createNeighborlist(adopted))
                     /\ log' = entry("intact")
                     /\ UNCHANGED <<pc, fault>>
           garbled == /\ inRange
                      /\ \E k \in Idx(R.nf), w \in Idx(M.nv) :
                            Store(createNeighborlist(
                                [adopted EXCEPT !.face[k].v1 = w, !.face[k].v2 = w]))
                      /\ log' = entry("garbled")
                      /\ UNCHANGED <<pc, fault>>
       IN crash \/ intact \/ garbled
    /\ opCount' = opCount + 1
    /\ UNCHANGED <<args, loop, budget>>

NextRefine == CreateNeighborlist \/ Refine

SpecRefine == InitRefine /\ [][NextRefine]_vars

-----------------------------------------------------------------------------
(* The loops marked "#pragma omp parallel for", one action per step of one   *)
(* iteration, the iterations taken in any order: removeUnconnectedVertices   *)
(* (lines 177-225) as createNeighborlist calls it at line 320, and           *)
(* translateMesh (lines 1987-1996).  loop.stage[n] is the position of        *)
(* iteration n, loop.reg[n] the value it has loaded from the shared counter. *)

InitParallel == InitWith({LooseVertex, TwoLooseVertices, Tetrahedron})

\* Lines 239-309: markers as createNeighborlist leaves them at line 312.
Marked(M) ==
    LET connected == {M.face[k].v1 : k \in Idx(M.nf)} \cup
                     {M.face[k].v2 : k \in Idx(M.nf)} \cup
                     {M.face[k].v3 : k \in Idx(M.nf)}
    IN [M EXCEPT !.vertex = [n \in Idx(M.nv) |->
           [M.vertex[n] EXCEPT !.marker = IF n \in connected THEN 0 ELSE -1]]]

\* Lines 312-320: createNeighborlist finds an unconnected vertex, destroys the
\* lists and enters removeUnconnectedVertices (lines 180-182).
RemoveUnconnectedCall ==
    /\ pc = "idle"
    /\ opCount < MaxOps
    /\ \E n \in Idx(numberVertices) : Marked(Cur).vertex[n].marker < 0
    /\ Store(destroyNeighborlist(Marked(Cur)))
    /\ pc' = "count"
    /\ loop' = [stage |-> [n \in Idx(numberVertices) |-> 0],
                reg |-> [n \in Idx(numberVertices) |-> 0],
                numberRemovedVertices |-> 0,
                verticesToRemove |-> [n \in Idx(numberVertices) |-> 0]]
    /\ log' = [op |-> "removeUnconnectedVertices", returned |-> FALSE,
               inOrder |-> removeUnconnectedVertices(destroyNeighborlist(Marked(Cur)))]
    /\ args' = [op |-> "removeUnconnectedVertices"]
    /\ opCount' = opCount + 1
    /\ UNCHANGED <<fault, budget>>

\* Line 187-189, first half of numberRemovedVertices++: the load.
CountLoad ==
    /\ pc = "count"
    /\ \E n \in Idx(numberVertices) :
          /\ loop.stage[n] = 0
          /\ loop' = IF vertex[n].marker < 0
                     THEN [loop EXCEPT !.stage[n] = 1, !.reg[n] = loop.numberRemovedVertices]
                     ELSE [loop EXCEPT !.stage[n] = 2]
    /\ UNCHANGED <<numberVertices, numberFaces, vertex, face, neighborList,
                   pc, args, log, fault, opCount, budget>>

\* Line 189, second half of numberRemovedVertices++: the store.
CountStore ==
    /\ pc = "count"
    /\ \E n \in Idx(numberVertices) :
          /\ loop.stage[n] = 1
          /\ loop' = [loop EXCEPT !.stage[n] = 2, !.numberRemovedVertices = loop.reg[n] + 1]
    /\ UNCHANGED <<numberVertices, numberFaces, vertex, face, neighborList,
                   pc, args, log, fault, opCount, budget>>

\* Line 192: verticesToRemove[n] = numberRemovedVertices.
CountAssign ==
    /\ pc = "count"
    /\ \E n \in Idx(numberVertices) :
          /\ loop.stage[n] = 2
          /\ loop' = [loop EXCEPT !.stage[n] = 3,
                                  !.verticesToRemove[n] = loop.numberRemovedVertices]
    /\ UNCHANGED <<numberVertices, numberFaces, vertex, face, neighborList,
                   pc, args, log, fault, opCount, budget>>

\* The end of a parallel loop: every iteration has finished.
LoopBarrier ==
    /\ pc \in {"count", "move"}
    /\ \A n \in Idx(numberVertices) : loop.stage[n] = 3
    /\ pc' = IF pc = "count" THEN "move" ELSE "faces"
    /\ loop' = [loop EXCEPT !.stage = [n \in Idx(IF pc = "count" THEN numberVertices
                                                  ELSE numberFaces) |-> 0]]
    /\ UNCHANGED <<numberVertices, numberFaces, vertex, face, neighborList,
                   args, log, fault, opCount, budget>>

\* Lines 199-211, one iteration: a vertex that stays is copied to the slot
\* n - verticesToRemove[n].  The index is a size_t: below 0 it is far outside
\* the table.
MoveIteration ==
    /\ pc = "move"
    /\ \E n \in Idx(numberVertices) :
          LET v == loop.verticesToRemove
              removed == \/ n = 0 /\ v[n] /= 0
                         \/ n /= 0 /\ v[n - 1] /= v[n]
          IN /\ loop.stage[n] = 0
             /\ loop' = [loop EXCEPT !.stage[n] = 3]
             /\ IF removed
                THEN UNCHANGED <<vertex, pc, fault>>
                ELSE IF n - v[n] < 0
                THEN /\ pc' = "fault"
                     /\ fault' = "outOfBounds"
                     /\ UNCHANGED vertex
                ELSE /\ vertex' = [vertex EXCEPT ![n - v[n]] = vertex[n]]
                     /\ UNCHANGED <<pc, fault>>
    /\ UNCHANGED <<numberVertices, numberFaces, face, neighborList,
                   args, log, opCount, budget>>

\* Lines 216-221, one iteration: the three indices of face n are shifted.
FaceIteration ==
    /\ pc = "faces"
    /\ \E n \in Idx(numberFaces) :
          /\ loop.stage[n] = 0
          /\ loop' = [loop EXCEPT !.stage[n] = 3]
          /\ face' = [face EXCEPT ![n] =
                         [@ EXCEPT !.v1 = @ - loop.verticesToRemove[@],
                                   !.v2 = @ - loop.verticesToRemove[@],
                                   !.v3 = @ - loop.verticesToRemove[@]]]
    /\ UNCHANGED <<numberVertices, numberFaces, vertex, neighborList,
                   pc, args, log, fault, opCount, budget>>

\* Line 224: numberVertices -= numberRemovedVertices, and the return.  The
\* createNeighborlist() that follows at line 323 indexes its lists with the
\* face indices (lines 266-307): one outside the table is a write out of
\* bounds.
RemoveUnconnectedReturn ==
    /\ pc = "faces"
    /\ \A n \in Idx(numberFaces) : loop.stage[n] = 3
    /\ numberVertices' = numberVertices - loop.numberRemovedVertices
    /\ vertex' = [n \in Idx(numberVertices - loop.numberRemovedVertices) |-> vertex[n]]
    /\ LET inRange == \A k \in Idx(numberFaces) :
                         {face[k].v1, face[k].v2, face[k].v3}
                             \subseteq Idx(numberVertices - loop.numberRemovedVertices)
       IN /\ pc' = IF inRange THEN "idle" ELSE "fault"
          /\ fault' = IF inRange THEN fault ELSE "outOfBounds"
    /\ loop' = NoLoop
    /\ log' = [log EXCEPT !.returned = TRUE]
    /\ UNCHANGED <<numberFaces, face, neighborList, args, opCount, budget>>

Shifts == {<<2, 0, 0>>, <<0, -2, 0>>}

\* translateMesh(dx, dy, dz), lines 1987-1989.
TranslateCall ==
    /\ pc = "idle"
    /\ opCount < MaxOps
    /\ \E d \in Shifts :
          /\ args' = [op |-> "translateMesh", d |-> d]
          /\ log' = [op |-> "translateMesh", returned |-> FALSE,
                     inOrder |-> [Cur EXCEPT !.vertex = [n \in Idx(numberVertices) |->
                                    [vertex[n] EXCEPT !.x = @ + d[1], !.y = @ + d[2],
                                                      !.z = @ + d[3]]]]]
    /\ pc' = "translate"
    /\ loop' = [stage |-> [n \in Idx(numberVertices) |-> 0]]
    /\ opCount' = opCount + 1
    /\ UNCHANGED <<numberVertices, numberFaces, vertex, face, neighborList, fault, budget>>

\* Lines 1990-1995, one iteration.
TranslateIteration ==
    /\ pc = "translate"
    /\ \E i \in Idx(numberVertices) :
          /\ loop.stage[i] = 0
          /\ loop' = [loop EXCEPT !.stage[i] = 3]
          /\ vertex' = [vertex EXCEPT ![i].x = @ + args.d[1], ![i].y = @ + args.d[2],
                                      ![i].z = @ + args.d[3]]
    /\ UNCHANGED <<numberVertices, numberFaces, face, neighborList,
                   pc, args, log, fault, opCount, budget>>

TranslateReturn ==
    /\ pc = "translate"
    /\ \A i \in Idx(numberVertices) : loop.stage[i] = 3
    /\ pc' = "idle"
    /\ loop' = NoLoop
    /\ log' = [log EXCEPT !.returned = TRUE]
    /\ UNCHANGED <<numberVertices, numberFaces, vertex, face, neighborList,
                   args, fault, opCount, budget>>

NextParallel ==
    \/ RemoveUnconnectedCall
    \/ CountLoad
    \/ CountStore
    \/ CountAssign
    \/ LoopBarrier
    \/ MoveIteration
    \/ FaceIteration
    \/ RemoveUnconnectedReturn
    \/ TranslateCall
    \/ TranslateIteration
    \/ TranslateReturn

SpecParallel == InitParallel /\ [][NextParallel]_vars

-----------------------------------------------------------------------------
(* Properties.                                                               *)

Rotations(v, a, b) == {<<v, a, b>>, <<a, b, v>>, <<b, v, a>>}

Corners(k) == {face[k].v1, face[k].v2, face[k].v3}

Ring(v) == neighborList.ring[v]

\* Between calls, with the adjacency attached.
AtRest == pc = "idle" /\ neighborList.attached

RecordsNameFaces ==
    \A v \in Idx(numberVertices) : \A i \in 1 .. Len(Ring(v)) :
        /\ Ring(v)[i].c \in Idx(numberFaces)
        /\ LET k == Ring(v)[i].c
           IN <<face[k].v1, face[k].v2, face[k].v3>> \in Rotations(v, Ring(v)[i].a, Ring(v)[i].b)

FacesHaveRecords ==
    \A k \in Idx(numberFaces) : \A v \in Corners(k) :
        /\ v \in Idx(numberVertices)
        /\ Cardinality({i \in 1 .. Len(Ring(v)) : Ring(v)[i].c = k}) = 1

RingLengthSum == SumOver(Idx(numberVertices), LAMBDA v : Len(Ring(v)))

\* C1: whenever the adjacency exists between calls, every ring record
\* (a, b, c) at v names a face c that is a rotation of (v, a, b), every face
\* has exactly one record in each corner's ring, and the ring lengths sum
\* to 3 * numberFaces.
C1_RingsMatchFaces ==
    AtRest => /\ DOMAIN neighborList.ring = Idx(numberVertices)
              /\ RecordsNameFaces
              /\ FacesHaveRecords
              /\ RingLengthSum = 3 * numberFaces

\* The state C1 is refuted in: coarse has returned from inside its vertex
\* loop after removing a vertex, the adjacency still attached.
C1_EarlyReturnAfterRemoval ==
    /\ AtRest
    /\ log.op = "coarse"
    /\ log.early
    /\ Len(log.removed) > 0

-----------------------------------------------------------------------------
(* smooth.                                                                   *)

SmoothReturned == pc = "idle" /\ log.op = "smooth" /\ log.returned

\* C2: smooth runs at most maximumIterations passes; the flag it returns is
\* true exactly when every measurable angle of the mesh it leaves behind is
\* above maxMinAngle and below minaMaxAngle; when it returns false it ran
\* exactly maximumIterations passes.
C2_SmoothContract ==
    SmoothReturned =>
        /\ log.passes <= args.maximumIterations
        /\ log.result <=> AnglesWithin(Cur, args.maxMinAngle, args.minaMaxAngle)
        /\ ~log.result => log.passes = args.maximumIterations

\* smooth returns false after two passes in which a vertex was relocated.
C2_FalseAfterAllPasses ==
    /\ SmoothReturned
    /\ ~log.result
    /\ log.passes = 2
    /\ log.moved /= {}

-----------------------------------------------------------------------------
(* coarse.                                                                   *)

CoarseReturned == pc = "idle" /\ log.op = "coarse" /\ log.returned

\* C3: every vertex coarse removes had selected = true when it was removed.
C3_RemovesOnlySelected ==
    log.op = "coarse" =>
        \A i \in 1 .. Len(log.removed) : log.removed[i].selected

\* C4: after coarse returns no vertex carries the sentinel coordinate, no face
\* holds a -1 index, every face index lies in [0, numberVertices) and every
\* ring record holds indices of the compacted tables.
C4_CompactedAfterCoarse ==
    CoarseReturned =>
        /\ \A n \in Idx(numberVertices) :
              vertex[n].x /= Sentinel /\ vertex[n].y /= Sentinel /\ vertex[n].z /= Sentinel
        /\ \A k \in Idx(numberFaces) :
              /\ face[k].marker /= -1
              /\ Corners(k) \subseteq Idx(numberVertices)
        /\ \A v \in DOMAIN neighborList.ring : \A i \in 1 .. Len(Ring(v)) :
              /\ Ring(v)[i].a \in Idx(numberVertices)
              /\ Ring(v)[i].b \in Idx(numberVertices)
              /\ Ring(v)[i].c \in Idx(numberFaces)

\* The removals of the pass coarse has just finished all had degree >= 3.
ProperRemovals ==
    /\ Len(log.removed) > 0
    /\ \A i \in 1 .. Len(log.removed) : log.removed[i].k >= 3

-----------------------------------------------------------------------------
(* Edge flipping.  log.flips holds the flips of the latest edgeFlipping       *)
(* call, each with the vertex table and the rings it was decided on.         *)

Flips ==
    IF log.op \in {"smooth", "edgeFlipping"} THEN {log.flips[i] : i \in 1 .. Len(log.flips)}
    ELSE {}

\* The cosine of the interior angle at p of the triangle (p, q, r); an edge
\* of length 0 at p counts as the angle 0.
CornerCos(V, p, q, r) ==
    LET u == Sub(Pos(V, q), Pos(V, p))
        v == Sub(Pos(V, r), Pos(V, p))
    IN IF Dot(u, u) = 0 \/ Dot(v, v) = 0 THEN CosKey(1, 1)
       ELSE CosKey(SignedSquare(Dot(u, v)), Dot(u, u) * Dot(v, v))

\* The cosine of the smallest interior angle of the triangles t1 and t2.
SmallestAngleCos(V, t1, t2) ==
    LET all == {CornerCos(V, t[1], t[2], t[3]) : t \in
                  {t1, <<t1[2], t1[3], t1[1]>>, <<t1[3], t1[1], t1[2]>>,
                   t2, <<t2[2], t2[3], t2[1]>>, <<t2[3], t2[1], t2[2]>>}}
    IN CHOOSE k \in all : \A m \in all : ~CosGreater(m, k)

\* C6: every committed flip of edge (v, b) between a and c leaves a pair of
\* triangles {(v,a,c), (b,c,a)} whose smallest angle is strictly larger than
\* the smallest angle of the pair {(v,a,b), (v,b,c)} it replaces.
C6_FlipRaisesMinimumAngle ==
    \A f \in Flips :
        CosGreater(SmallestAngleCos(f.vertex, <<f.n, f.a, f.b>>, <<f.n, f.b, f.c>>),
                   SmallestAngleCos(f.vertex, <<f.n, f.a, f.c>>, <<f.b, f.c, f.a>>))

\* The normals of the present faces (v, a, b) and (v, b, c) of a flip.
PresentNormals(f) ==
    LET V == f.vertex
    IN <<Cross(Sub(Pos(V, f.a), Pos(V, f.n)), Sub(Pos(V, f.b), Pos(V, f.n))),
         Cross(Sub(Pos(V, f.b), Pos(V, f.n)), Sub(Pos(V, f.c), Pos(V, f.n)))>>

\* The unit normals have a dot product above 0.866.
WithinRidgeBound(f) ==
    LET n1 == PresentNormals(f)[1]
        n2 == PresentNormals(f)[2]
        t == Dot(n1, n2)
        d == Dot(n1, n1) * Dot(n2, n2)
    IN d > 0 /\ t > 0 /\ FracGreater(t * t, d, 749956, 1000000)

Named(ring) == {ring[i].a : i \in 1 .. Len(ring)} \cup {ring[i].b : i \in 1 .. Len(ring)}

AllSelected == \A v \in Idx(numberVertices) : vertex[v].selected

NoDuplicateNeighbour(ring) ==
    \A i, j \in 1 .. Len(ring) : ring[i].a = ring[j].a => i = j

\* C8: no flip is committed for an edge (v, b) whose ring neighbours a and c
\* already share a face, and on a mesh whose rings are all closed no list
\* ever names the same neighbour in two a fields.
C8_NoDuplicateEdge ==
    /\ \A f \in Flips : f.c \notin Named(f.before[f.a]) /\ f.a \notin Named(f.before[f.c])
    /\ (neighborList.attached /\ AllSelected /\ fault = NoFault) =>
          \A v \in Idx(numberVertices) : NoDuplicateNeighbour(Ring(v))

\* A flip has been committed on a mesh whose rings are all closed.
C8_FlippedOnClosedMesh ==
    /\ Flips /= {}
    /\ neighborList.attached
    /\ AllSelected
    /\ fault = NoFault

-----------------------------------------------------------------------------
(* createNeighborlist.                                                       *)

Created == log.op = "createNeighborlist"

IsCycle(ring) ==
    /\ Len(ring) >= 1
    /\ \A i \in 1 .. (Len(ring) - 1) : ring[i].b = ring[i + 1].a
    /\ ring[Len(ring)].b = ring[1].a

\* The index vertex v had before the call dropped the vertices no face names.
IndexBefore(v) ==
    LET named == UNION {{log.faces[k].v1, log.faces[k].v2, log.faces[k].v3} :
                           k \in DOMAIN log.faces}
    IN CHOOSE n \in named : Cardinality({m \in named : m < n}) = v

\* C9: after createNeighborlist the adjacency is attached, a vertex is
\* selected only if its list is one closed cycle (each a the predecessor's b,
\* the last b the first a), and a vertex with such a list keeps the selected
\* flag it had.
C9_SelectedRingsClosed ==
    Created =>
        /\ neighborList.attached
        /\ DOMAIN neighborList.ring = Idx(numberVertices)
        /\ \A v \in Idx(numberVertices) :
              /\ vertex[v].selected => IsCycle(Ring(v))
              /\ IsCycle(Ring(v)) => vertex[v].selected = log.before[IndexBefore(v)].selected

\* createNeighborlist has run on a mesh with a boundary: it left closed and
\* open lists behind.
C9_OpenAndClosedRings ==
    /\ Created
    /\ \E v \in Idx(numberVertices) : vertex[v].selected /\ IsCycle(Ring(v))
    /\ \E v \in Idx(numberVertices) : ~vertex[v].selected /\ ~IsCycle(Ring(v))

-----------------------------------------------------------------------------
(* refine.                                                                   *)

\* C10 is refuted in this state: refine() on a closed manifold mesh has not
\* returned.
C10_RefineCrashed ==
    /\ log.op = "refine"
    /\ log.closed
    /\ pc = "fault"

\* C10: refine() on a closed manifold mesh with V vertices, E edges and F
\* faces returns with numberVertices = V + E and numberFaces = 4F.
C10_RefineCounts ==
    (log.op = "refine" /\ log.closed) =>
        /\ pc = "idle"
        /\ numberVertices = log.vertices + log.edges
        /\ numberFaces = 4 * log.faces

-----------------------------------------------------------------------------
(* refine: the tables it builds (log.built), before they are adopted.        *)

Refined == log.op = "refine"

\* The corners of original face n, from 1.
OldCorner(n, m) ==
    LET f == log.oldFaces[n]
    IN <<f.v1, f.v2, f.v3>>[m]

\* Vertex i of the built tables was created on the edge between p and q.
CreatedOn(i, p, q) ==
    /\ i - log.vertices \in DOMAIN log.built.edgeOf
    /\ {log.built.edgeOf[i - log.vertices][1], log.built.edgeOf[i - log.vertices][2]} = {p, q}

\* C11: for every original face n and each of its edges (v_m, v_m+1) the
\* face slot n holds the three vertices created on its own edges, in edge
\* order, and the corner face appended for v_m is (v_m, m_m, m_(m-1)), m_m
\* being the vertex created on the edge (v_m, v_m+1).
C11_MidpointsOfOwnEdges ==
    Refined =>
        \A n \in Idx(log.faces) :
            LET next(m) == (m % 3) + 1
                prev(m) == ((m + 1) % 3) + 1
                mid == <<log.built.face[n].v1, log.built.face[n].v2, log.built.face[n].v3>>
            IN \A m \in 1 .. 3 :
                  /\ CreatedOn(mid[m], OldCorner(n, m), OldCorner(n, next(m)))
                  /\ LET c == log.built.face[log.faces + 3 * n + (m - 1)]
                     IN /\ c.v1 = OldCorner(n, m)
                        /\ c.v2 = mid[m]
                        /\ c.v3 = mid[prev(m)]

\* refine() has built its tables for a mesh with a boundary.
C11_RefinedOpenMesh ==
    /\ Refined
    /\ ~log.closed
    /\ log.faces = 3

-----------------------------------------------------------------------------
(* The data-parallel loops.                                                  *)

ParallelPass == log.op \in {"removeUnconnectedVertices", "translateMesh"}

\* C12: a pass run as a parallel loop ends, for every order of its
\* iterations, with the tables the loop run in index order produces, and no
\* iteration writes outside the tables.
C12_SameForEveryInterleaving ==
    ParallelPass =>
        /\ fault = NoFault
        /\ (pc = "idle" /\ log.returned) =>
              /\ numberVertices = log.inOrder.nv
              /\ vertex = log.inOrder.vertex
              /\ face = log.inOrder.face

\* removeUnconnectedVertices has returned with tables that differ from those
\* of the run in index order.
C12_OrderChangedResult ==
    /\ log.op = "removeUnconnectedVertices"
    /\ pc = "idle"
    /\ log.returned
    /\ vertex /= log.inOrder.vertex

-----------------------------------------------------------------------------
(* smooth: what it leaves alone.  log.start is the mesh at line 1713.         *)

\* The faces at v, each as the set of its corners, read off v's list.
IncidentFaces(nl, v) == {{v, nl[v][i].a, nl[v][i].b} : i \in 1 .. Len(nl[v])}

\* C13: during smooth a vertex that is not selected keeps its coordinates
\* and the set of faces incident to it.
C13_UnselectedFrozen ==
    (log.op = "smooth" /\ fault = NoFault) =>
        \A v \in Idx(numberVertices) :
            ~log.start.vertex[v].selected =>
                /\ Pos(vertex, v) = Pos(log.start.vertex, v)
                /\ IncidentFaces(neighborList.ring, v) = IncidentFaces(log.start.nl, v)

\* smooth has committed a flip on a mesh with a vertex that is not selected.
C13_FlipNextToUnselected ==
    /\ log.op = "smooth"
    /\ fault = NoFault
    /\ Len(log.flips) > 0
    /\ \E v \in Idx(numberVertices) : ~log.start.vertex[v].selected

-----------------------------------------------------------------------------
(* coarse: the relocation of the neighbours of a removed vertex.             *)

\* C14: after a removal the relocation step runs for exactly the ring
\* neighbours of the removed vertex that are selected, and writes the
\* coordinates of no neighbour that is not selected.
C14_RelocatesSelectedNeighbours ==
    log.op = "coarse" =>
        \A i \in 1 .. Len(log.removed) :
            LET r == log.removed[i]
                chosen == {r.ring[j] : j \in {x \in 1 .. r.k : r.ringSelected[x]}}
            IN (r.completed /\ r.selected) =>
                  /\ r.visited = chosen
                  /\ r.written \subseteq chosen

\* A selected vertex with a ring neighbour that is not selected has been
\* removed and the removal has run to its end.
C14_RemovedNextToUnselected ==
    /\ log.op = "coarse"
    /\ \E i \in 1 .. Len(log.removed) :
          /\ log.removed[i].completed
          /\ log.removed[i].selected
          /\ \E j \in 1 .. log.removed[i].k : ~log.removed[i].ringSelected[j]

-----------------------------------------------------------------------------
(* coarse: the return at "Max EigenValue is zero".                           *)

EigenAbort == CoarseReturned /\ log.early

\* C15: when coarse stops at a vertex whose top eigenvalue is zero, the mesh
\* it returns holds no vertex with the sentinel coordinate and no face with
\* the index -1, and the counts are those of the vertices and faces left,
\* also when vertices were removed earlier in the pass.
C15_ConsistentAfterEigenAbort ==
    EigenAbort =>
        /\ \A n \in Idx(numberVertices) : vertex[n].x /= Sentinel
        /\ \A k \in Idx(numberFaces) : face[k].v1 /= -1
        /\ numberVertices = log.vertices - Len(log.removed)

\* coarse has stopped at a zero eigenvalue after removing one vertex, which
\* is still in the table.
C15_AbortWithVertexRemoved ==
    /\ EigenAbort
    /\ Len(log.removed) = 1
    /\ vertex[log.removed[1].n].x = Sentinel

-----------------------------------------------------------------------------
(* edgeFlipping: the record of b's list that names the flipped edge.         *)

FlipsLogged == IF log.op \in {"smooth", "edgeFlipping"} THEN log.flips ELSE <<>>

\* C16: when the flip of edge (n, b) does not find, in the list of b, the
\* record with b-field n and a-field c, the attempt leaves the two faces and
\* the lists of n, a, b and c as they were, and no record is read through a
\* null or unassigned pointer.
C16_MissingRecordLeavesIntact ==
    \A k \in 1 .. Len(FlipsLogged) :
        LET f == FlipsLogged[k]
        IN ~f.found =>
              /\ fault \notin {"nullRecord", "wildRecord"}
              /\ f.after.face[f.f1] = f.faces[f.f1]
              /\ f.after.face[f.f2] = f.faces[f.f2]
              /\ \A v \in {f.n, f.a, f.b, f.c} : f.after.nl[v] = f.before[v]

\* A flip has passed its checks and has not found the record in b's list.
C16_RecordOfBMissing ==
    \E k \in 1 .. Len(FlipsLogged) :
        /\ ~FlipsLogged[k].found
        /\ FlipsLogged[k].after.face /= FlipsLogged[k].faces

-----------------------------------------------------------------------------
(* coarse: the flags of the pre-pass and the order of the removals.          *)

Outgoing(M, n) == {M.nl[n][i].a : i \in 1 .. Len(M.nl[n])}

\* Every outgoing ring neighbour of n has more than 3 records and at most 2
\* outgoing ring neighbours in common with n.
Eligible(M, n) ==
    \A a \in Outgoing(M, n) :
        /\ Len(M.nl[a]) > 3
        /\ Cardinality(Outgoing(M, a) \cap Outgoing(M, n)) <= 2

FlagsOfPassStart ==
    log.op = "coarse" =>
        \A n \in Idx(log.start.nv) :
            log.start.vertex[n].selected => (loop.deleteFlags[n] <=> Eligible(log.start, n))

RemovalInOrder ==
    (log.op = "coarse" /\ log'.op = "coarse" /\ Len(log'.removed) = Len(log.removed) + 1) =>
        LET r == log'.removed[Len(log'.removed)]
        IN /\ r.n = loop.n
           /\ loop.deleteFlags[r.n]
           /\ loop'.deleteFlags = loop.deleteFlags
           /\ \A i \in 1 .. Len(log.removed) : log.removed[i].n < r.n
           /\ r.ring = [i \in 1 .. Len(neighborList.ring[r.n]) |-> neighborList.ring[r.n][i].a]

\* C17: in a pass of coarse the flag of every selected vertex is the
\* eligibility of that vertex on the mesh of the pass start (every outgoing
\* ring neighbour has ring degree > 3 and shares at most 2 ring neighbours
\* with it), the flags do not change during the pass, and the removals happen
\* in increasing index order, each on the ring left by the previous ones.
C17_FlagsThenOrderedRemovals == []FlagsOfPassStart /\ [][RemovalInOrder]_vars

\* Two vertices have been removed in one pass, the second one with a ring
\* other than its ring at the pass start, and a vertex was flagged not
\* eligible.
C17_SecondRemovalSawFirst ==
    /\ log.op = "coarse"
    /\ Len(log.removed) = 2
    /\ LET m == log.removed[2].n
       IN /\ log.start.vertex[m].selected
          /\ log.removed[2].ring /=
                [i \in 1 .. Len(log.start.nl[m]) |-> log.start.nl[m][i].a]

-----------------------------------------------------------------------------
(* smooth: the sizes of the tables.                                          *)

\* Every vertex is a corner of at least one face.
Covered(M) ==
    \A n \in Idx(M.nv) : \E k \in Idx(M.nf) : n \in {M.face[k].v1, M.face[k].v2, M.face[k].v3}

\* C18: when smooth is called on a mesh in which every vertex belongs to a
\* face, numberVertices and numberFaces keep the values of the call in every
\* iteration, and every committed flip rewrites the two face slots f1 and f2
\* of a table that keeps its size.
C18_SmoothKeepsCounts ==
    (log.op = "smooth" /\ Covered(log.entry)) =>
        /\ numberVertices = log.entry.nv
        /\ numberFaces = log.entry.nf
        /\ DOMAIN vertex = Idx(log.entry.nv)
        /\ DOMAIN face = Idx(log.entry.nf)
        /\ \A k \in 1 .. Len(log.flips) :
              LET f == log.flips[k]
              IN /\ f.f1 /= f.f2
                 /\ DOMAIN f.after.face = DOMAIN f.faces
                 /\ \A x \in DOMAIN f.faces :
                       x \notin {f.f1, f.f2} => f.after.face[x] = f.faces[x]

\* smooth has returned from such a mesh after a pass that flipped an edge.
C18_ReturnedAfterFlip ==
    /\ log.op = "smooth"
    /\ log.returned
    /\ Covered(log.entry)
    /\ face /= log.entry.face

-----------------------------------------------------------------------------
(* coarse with a denseness weight.                                           *)

\* The faces at n are equilateral with one common edge length.
Equilateral(M, n) ==
    /\ Len(M.nl[n]) > 0
    /\ \E L \in {SquaredLength(M.vertex, n, M.nl[n][1].a)} :
          /\ L > 0
          /\ \A i \in 1 .. Len(M.nl[n]) :
                /\ SquaredLength(M.vertex, n, M.nl[n][i].a) = L
                /\ SquaredLength(M.vertex, n, M.nl[n][i].b) = L
                /\ SquaredLength(M.vertex, M.nl[n][i].a, M.nl[n][i].b) = L

\* C19: with densenessWeight > 0 a vertex whose incident faces are all
\* equilateral with one common edge length has ratio2 = 1, so
\* coarse(1.0, 0, 10, -1) does not remove it: the first vertex the pass
\* removes is not such a vertex of the mesh of the pass start.
C19_EquilateralVertexKept ==
    (log.op = "coarse" /\ args.densenessWeight > 0 /\ Len(log.removed) > 0) =>
        ~Equilateral(log.start, log.removed[1].n)

\* coarse(1.0, 0, 10, -1) has returned from a mesh of equilateral faces with
\* fewer vertices than it was given.
C19_EquilateralVertexRemoved ==
    /\ CoarseReturned
    /\ args.densenessWeight > 0
    /\ \A n \in Idx(log.start.nv) : Equilateral(log.start, n)
    /\ numberVertices < log.vertices

-----------------------------------------------------------------------------
(* smoothNormals: what a call may change.                                    *)

Neighbours(M, n) ==
    {M.nl[n][i].a : i \in 1 .. Len(M.nl[n])} \cup {M.nl[n][i].b : i \in 1 .. Len(M.nl[n])}

\* Between the mesh T and the current one only coordinates differ, and only
\* those of selected vertices whose ring neighbours are all selected.
OnlyFreeVerticesMoved(T) ==
    /\ numberVertices = T.nv
    /\ numberFaces = T.nf
    /\ face = T.face
    /\ neighborList.ring = T.nl
    /\ neighborList.attached = T.hasNl
    /\ \A n \in Idx(T.nv) :
          /\ vertex[n].selected = T.vertex[n].selected
          /\ vertex[n].marker = T.vertex[n].marker
          /\ vertex[n] /= T.vertex[n] =>
                /\ T.vertex[n].selected
                /\ \A b \in Neighbours(T, n) : T.vertex[b].selected

\* C20, as stated: a call of smoothNormals changes only coordinates, and only
\* of selected vertices all of whose ring neighbours are selected; faces,
\* rings, numberVertices and numberFaces are those of the call.
C20_OnlyCoordinatesSinceCall ==
    log.op = "smoothNormals" => OnlyFreeVerticesMoved(log.entry)

\* C20, amended: the same with respect to the mesh behind lines 1771-1772,
\* where createNeighborlist has run if the adjacency was missing.
C20_OnlyCoordinatesSinceAdjacency ==
    log.op = "smoothNormals" => OnlyFreeVerticesMoved(log.start)

\* smoothNormals has returned after moving a vertex and after passing a
\* selected vertex that has an unselected ring neighbour.
C20_MovedAndPassed ==
    /\ log.op = "smoothNormals"
    /\ log.returned
    /\ vertex /= log.start.vertex
    /\ \E n \in Idx(log.start.nv) :
          /\ log.start.vertex[n].selected
          /\ \E b \in Neighbours(log.start, n) : ~log.start.vertex[b].selected

-----------------------------------------------------------------------------
(* refine: who owns the tables.                                              *)

\* C21: when refine() is over the mesh owns live tables: the storage it has
\* adopted is not among the storage released during the call, the call has
\* returned, and no table was released twice.
C21_AdoptedTablesLive ==
    Refined =>
        /\ pc = "idle"
        /\ \A i \in 1 .. Len(log.storage.released) :
              log.storage.released[i] /= log.storage.adopted
        /\ \A i, j \in 1 .. Len(log.storage.released) :
              log.storage.released[i] = log.storage.released[j] => i = j

\* refine() has returned and the tables the mesh points at were released
\* inside the call; a face of the rebuilt mesh reads back with two equal
\* corners.
C21_ReturnedOnReleasedTables ==
    /\ Refined
    /\ pc = "idle"
    /\ log.outcome = "garbled"
    /\ \E i \in 1 .. Len(log.storage.released) :
          log.storage.released[i] = log.storage.adopted

-----------------------------------------------------------------------------
(* coarseDense, coarseFlat and optimizeUsingDefaultParameters, lines         *)
(* 2563-2580 and 2014-2018.  The frame of the wrapper is carried in          *)
(* args.wrapper while coarse (and, for optimizeUsingDefaultParameters,       *)
(* smooth) runs: [name, rate, iterations, i, calls, optimize, done], where   *)
(* calls counts the invocations of coarse.                                   *)

\* The loop test of a wrapper that leaves when coarse returns non-zero.
LoopBreaksOnStop(returned) == returned /= 0

\* Lines 2567-2570 and 2577-2580: if (!coarse(...)) break;
LoopBreaks(returned) == returned = 0

Wrappers == {"coarseDense", "coarseFlat"}

\* coarseDense(denseRate, iterations) or coarseFlat(flatnessRate, iterations)
\* called from outside.  coarseDense is called with denseRate 1.
CoarseWrapperCall ==
    /\ pc = "idle"
    /\ opCount < MaxOps
    /\ ~Stale(Cur) /\ ~StaleRings(Cur)
    /\ \E name \in Wrappers, iterations \in 0 .. MaxIterations :
          args' = [op |-> name,
                   wrapper |-> [name |-> name, rate |-> 1, iterations |-> iterations,
                                i |-> 0, calls |-> 0, optimize |-> FALSE, done |-> FALSE]]
    /\ pc' = "wrapper"
    /\ log' = [op |-> "wrapper", returned |-> FALSE]
    /\ opCount' = opCount + 1
    /\ UNCHANGED <<numberVertices, numberFaces, vertex, face, neighborList,
                   loop, fault, budget>>

\* optimizeUsingDefaultParameters(), line 2016: coarseFlat(0.05, 5, true).
OptimizeCall ==
    /\ pc = "idle"
    /\ opCount < MaxOps
    /\ ~Stale(Cur) /\ ~StaleRings(Cur)
    /\ args' = [op |-> "coarseFlat",
                wrapper |-> [name |-> "coarseFlat", rate |-> 0, iterations |-> 5,
                             i |-> 0, calls |-> 0, optimize |-> TRUE, done |-> FALSE]]
    /\ pc' = "wrapper"
    /\ log' = [op |-> "wrapper", returned |-> FALSE]
    /\ opCount' = opCount + 1
    /\ UNCHANGED <<numberVertices, numberFaces, vertex, face, neighborList,
                   loop, fault, budget>>

\* The head of the wrapper's loop, for (i = 0; i < iterations; ++i), and the
\* call in its body: coarse(denseRate, 0, 10, -1) in coarseDense and
\* coarse(flatnessRate, 1, 0, -1) in coarseFlat.  Past the last iteration the
\* wrapper returns, into optimizeUsingDefaultParameters when that called it.
CoarseWrapperPass ==
    /\ pc = "wrapper"
    /\ LET W == args.wrapper
           M == IF neighborList.attached THEN Cur ELSE createNeighborlist(Cur)
           unset == {n \in Idx(M.nv) : ~M.vertex[n].selected}
       IN IF W.i >= W.iterations
          THEN /\ pc' = IF W.optimize THEN "optimize" ELSE "idle"
               /\ args' = [args EXCEPT !.wrapper.done = TRUE]
               /\ UNCHANGED <<numberVertices, numberFaces, vertex, face, neighborList,
                              loop, log, fault>>
          ELSE IF Stale(Cur) \/ StaleRings(Cur)
          THEN /\ pc' = "fault"
               /\ fault' = "staleTables"
               /\ UNCHANGED <<numberVertices, numberFaces, vertex, face, neighborList,
                              args, loop, log>>
          ELSE \E garbage \in {G \in SUBSET unset : Cardinality(G) <= MaxGarbage} :
                  /\ Store(M)
                  /\ args' = [op |-> "coarse",
                              flatnessRate |-> IF W.name = "coarseFlat" THEN 1 ELSE 0,
                              densenessWeight |-> IF W.name = "coarseDense" THEN 10 ELSE 0,
                              caller |-> "resume",
                              wrapper |-> [W EXCEPT !.calls = @ + 1]]
                  /\ loop' = [n |-> 0, stop |-> 0,
                              deleteFlags |-> [n \in Idx(M.nv) |->
                                  IF M.vertex[n].selected THEN deleteFlag(M, n)
                                  ELSE n \in garbage]]
                  /\ log' = [op |-> "coarse", removed |-> <<>>, before |-> <<>>, written |-> {},
                             early |-> FALSE,
                             returned |-> W.name = "coarseDense" /\ M.nf = 0,
                             result |-> IF W.name = "coarseDense" /\ M.nf = 0
                                        THEN <<0>> ELSE <<>>,
                             vertices |-> M.nv, faces |-> M.nf, start |-> M,
                             selected |-> [n \in Idx(M.nv) |-> M.vertex[n].selected]]
                  /\ pc' = IF W.name = "coarseDense" /\ M.nf = 0 THEN "resume" ELSE "coarse"
                  /\ UNCHANGED fault
    /\ UNCHANGED <<opCount, budget>>

\* coarse has returned into the wrapper: break, or ++i and the loop head.
CoarseWrapperResume ==
    /\ pc = "resume"
    /\ LET W == args.wrapper
       IN IF LoopBreaks(log.result[1])
          THEN /\ pc' = IF W.optimize THEN "optimize" ELSE "idle"
               /\ args' = [args EXCEPT !.wrapper.done = TRUE]
          ELSE /\ pc' = "wrapper"
               /\ args' = [args EXCEPT !.wrapper.i = @ + 1]
    /\ UNCHANGED <<numberVertices, numberFaces, vertex, face, neighborList,
                   loop, log, fault, opCount, budget>>

\* optimizeUsingDefaultParameters(), line 2017: smooth(15, 150, 15, false, true),
\* which indexes vertex[] with the corners of the faces (getMinMaxAngles).
OptimizeSmooth ==
    /\ pc = "optimize"
    /\ IF Stale(Cur) \/ StaleRings(Cur)
       THEN /\ pc' = "fault"
            /\ fault' = "staleTables"
            /\ UNCHANGED <<numberVertices, numberFaces, vertex, face, neighborList,
                           args, loop, log>>
       ELSE LET M == IF neighborList.attached THEN Cur ELSE createNeighborlist(Cur)
            IN /\ Store(M)
               /\ args' = [op |-> "smooth", maxMinAngle |-> 15, minaMaxAngle |-> 150,
                           maximumIterations |-> 15, preserveRidges |-> FALSE,
                           wrapper |-> args.wrapper]
               /\ loop' = [i |-> 0, n |-> 0, running |-> FALSE,
                           smoothed |-> AnglesWithin(M, 15, 150)]
               /\ pc' = "smooth"
               /\ log' = [op |-> "smooth", flips |-> <<>>, returned |-> FALSE,
                          result |-> FALSE, passes |-> 0, moved |-> {}, start |-> M,
                          entry |-> [nv |-> numberVertices, nf |-> numberFaces,
                                     face |-> face]]
               /\ UNCHANGED fault
    /\ UNCHANGED <<opCount, budget>>

InitWrappers ==
    InitWith({Octahedron, ApexOctahedron, Tetrahedron, HexagonalFan})

NextWrappers ==
    \/ CreateNeighborlist
    \/ CoarseWrapperCall
    \/ OptimizeCall
    \/ CoarseWrapperPass
    \/ CoarseVertex
    \/ CoarseCompact
    \/ CoarseWrapperResume
    \/ OptimizeSmooth
    \/ SmoothPass
    \/ SmoothVertex
    \/ SmoothReturn

SpecWrappers == InitWrappers /\ [][NextWrappers]_vars

\* The wrapper frame of the call in progress or last made, if any.
InWrapper == "wrapper" \in DOMAIN args

\* C22: coarse returns 0 on every path; a wrapper called with iterations >= 1
\* invokes coarse exactly once, never a second time, and
\* optimizeUsingDefaultParameters has made exactly one decimation pass when
\* it calls smooth.
C22_OnePassPerWrapper ==
    /\ log.op = "coarse" /\ log.returned => log.result = <<0>>
    /\ InWrapper =>
          /\ args.wrapper.calls <= 1
          /\ args.wrapper.done /\ args.wrapper.iterations >= 1 => args.wrapper.calls = 1
          /\ args.wrapper.optimize /\ pc = "smooth" => args.wrapper.calls = 1

\* A wrapper asked for two passes has returned after one pass, which removed
\* a vertex.
C22_BrokeAfterFirstPass ==
    /\ InWrapper
    /\ pc = "idle"
    /\ args.wrapper.done
    /\ args.wrapper.iterations >= 2
    /\ args.wrapper.calls = 1
    /\ log.op = "coarse"
    /\ log.removed /= <<>>

-----------------------------------------------------------------------------
\* C23: every vertex coarse removes is eligible on the mesh of the moment of
\* its removal: each of its ring neighbours has ring degree > 3 and shares at
\* most 2 ring neighbours with it.
C23_EligibleWhenRemoved ==
    log.op = "coarse" =>
        \A i \in 1 .. Len(log.removed) :
            Eligible([nl |-> log.before[i]], log.removed[i].n)

\* A selected vertex that was eligible at the start of the pass has been
\* removed after an earlier removal of the pass left one of its ring
\* neighbours with ring degree <= 3.
C23_RemovedWithShortNeighbour ==
    /\ log.op = "coarse"
    /\ pc = "idle"
    /\ log.returned
    /\ \E i \in 2 .. Len(log.removed) :
          LET n == log.removed[i].n
          IN /\ log.start.vertex[n].selected
             /\ Eligible(log.start, n)
             /\ \E a \in Outgoing([nl |-> log.before[i]], n) : Len(log.before[i][a]) <= 3

-----------------------------------------------------------------------------
\* The vertices a returned pass of coarse has kept: the compaction has dropped
\* the removed ones from the table, except after the early return, which
\* leaves their slots in place.
Survivors ==
    IF log.early THEN Idx(numberVertices) \ {log.removed[i].n : i \in 1 .. Len(log.removed)}
    ELSE Idx(numberVertices)

\* C24: when coarse has returned, the ring of every surviving vertex with
\* selected = true is ordered and closed: each record's a is its predecessor's
\* b and the last record's b is the first record's a.
C24_SelectedRingsClosed ==
    (pc = "idle" /\ log.op = "coarse" /\ log.returned) =>
        \A n \in Survivors : vertex[n].selected => IsCycle(Ring(n))

\* coarse has run to its end (no early return) with a removal, and a vertex it
\* kept is selected with a ring that is not a closed cycle.
C24_SelectedWithOpenRing ==
    /\ pc = "idle"
    /\ log.op = "coarse"
    /\ log.returned
    /\ ~log.early
    /\ log.removed /= <<>>
    /\ \E n \in Survivors : vertex[n].selected /\ ~IsCycle(Ring(n))

-----------------------------------------------------------------------------
\* C25: when refine has returned, every vertex of the mesh it was called on is
\* at its index with its coordinates and its selected flag; a vertex that was
\* unselected before the call is unselected after it.
C25_OriginalVerticesKept ==
    (Refined /\ pc = "idle") =>
        /\ numberVertices >= log.vertices
        /\ \A n \in Idx(log.vertices) :
              /\ Pos(vertex, n) = Pos(log.old, n)
              /\ vertex[n].selected = log.old[n].selected

\* refine has returned with the adopted tables as it built them, and a vertex
\* that was unselected before the call is selected.
C25_FrozenVertexSelected ==
    /\ Refined
    /\ pc = "idle"
    /\ log.outcome = "intact"
    /\ \E n \in Idx(log.vertices) :
          /\ ~log.old[n].selected
          /\ vertex[n].selected
          /\ Pos(vertex, n) = Pos(log.old, n)

-----------------------------------------------------------------------------
\* A committed flip found more than 3 records in the lists of n and b, and
\* left no list both shorter than it was and shorter than 3.
FlipKeepsDegrees(f) ==
    /\ Len(f.before[f.n]) > 3
    /\ Len(f.before[f.b]) > 3
    /\ \A v \in DOMAIN f.before :
          Len(f.after.nl[v]) >= Len(f.before[v]) \/ Len(f.after.nl[v]) >= 3

\* A flip that ran to its end took one record from the lists of n and b and
\* added one to the lists of a and c.
FlipMovesRecords(f) ==
    /\ Len(f.after.nl[f.n]) = Len(f.before[f.n]) - 1
    /\ Len(f.after.nl[f.b]) = Len(f.before[f.b]) - 1
    /\ Len(f.after.nl[f.a]) = Len(f.before[f.a]) + 1
    /\ Len(f.after.nl[f.c]) = Len(f.before[f.c]) + 1

\* A call edgeFlipping(n) that finds at most 3 records in the list of n
\* changes no face and no list; it puts n at the centroid of its ring.
CentroidOnly ==
    (pc = "idle" /\ args'.op = "edgeFlipping" /\ opCount' = opCount + 1
       /\ neighborList.attached /\ Len(Ring(args'.n)) <= 3) =>
        /\ face' = face
        /\ neighborList' = neighborList
        /\ numberVertices' = numberVertices /\ numberFaces' = numberFaces
        /\ log'.flips = <<>>
        /\ \A v \in Idx(numberVertices) : v /= args'.n => vertex'[v] = vertex[v]
        /\ Len(Ring(args'.n)) > 0 =>
              Pos(vertex', args'.n) = Centroid(vertex, Ring(args'.n))

\* C26: every flip is committed over an edge (n, b) whose two ends have ring
\* degree > 3 and lowers no ring degree below 3; a flip of a call that did not
\* fault took one record from n and b and gave one to a and c; after the last flip of a call
\* the faces and rings are not changed again; and a call on a vertex of ring
\* degree <= 3 only moves that vertex to the centroid of its ring neighbours.
C26_FlipsKeepDegreeThree ==
    /\ [](log.op \in {"smooth", "edgeFlipping"} =>
            /\ \A i \in 1 .. Len(log.flips) : FlipKeepsDegrees(log.flips[i])
            /\ fault = NoFault =>
                  \A i \in 1 .. Len(log.flips) : FlipMovesRecords(log.flips[i])
            /\ (log.op = "edgeFlipping" /\ log.flips /= <<>>) =>
                  /\ face = log.flips[Len(log.flips)].after.face
                  /\ neighborList.ring = log.flips[Len(log.flips)].after.nl)
    /\ [][CentroidOnly]_vars

\* edgeFlipping(n) has returned after a flip that took the ring of n from 4
\* records to 3.
C26_FlippedDownToThree ==
    /\ pc = "idle"
    /\ log.op = "edgeFlipping"
    /\ Len(log.flips) = 1
    /\ Len(log.flips[1].before[args.n]) = 4
    /\ Len(Ring(args.n)) = 3

-----------------------------------------------------------------------------
\* The vertices some face names.
Connected(M) ==
    {M.face[k].v1 : k \in Idx(M.nf)} \cup {M.face[k].v2 : k \in Idx(M.nf)} \cup
    {M.face[k].v3 : k \in Idx(M.nf)}

\* C27: when the removeUnconnectedVertices that createNeighborlist calls at
\* line 320 has returned, the createNeighborlist of line 323 finds every
\* vertex in a face: it does not remove vertices and call itself again, and
\* it leaves every vertex with marker 0 and a list that is not empty.
C27_OneRerunSuffices ==
    (log.op = "removeUnconnectedVertices" /\ pc = "idle" /\ log.returned) =>
        /\ Idx(numberVertices) \subseteq Connected(Cur)
        /\ LET M == createNeighborlist(Cur)
           IN /\ M.nv = numberVertices
              /\ \A n \in Idx(M.nv) : M.vertex[n].marker = 0 /\ Len(M.nl[n]) > 0

\* removeUnconnectedVertices has returned to createNeighborlist with every
\* face index inside the table and a vertex that no face names.
C27_UnconnectedAfterRerun ==
    /\ log.op = "removeUnconnectedVertices"
    /\ pc = "idle"
    /\ log.returned
    /\ fault = NoFault
    /\ \E n \in Idx(numberVertices) : n \notin Connected(Cur)

-----------------------------------------------------------------------------
(* deleteFaces, deleteVertices (lines 448-505) and removeUnconnectedVertices *)
(* (lines 177-225) with its loops run in index order, one action per         *)
(* iteration.  log.entry is the mesh removeUnconnectedVertices is entered    *)
(* with, log.caller the function that called it.                             *)

MaxMarked == 2

\* Lines 202-204: the test that skips a vertex to be removed.
ToBeRemovedAfterFirst(verticesToRemove, n) ==
    n /= 0 /\ verticesToRemove[n - 1] /= verticesToRemove[n]

ToBeRemoved(verticesToRemove, n) ==
    \/ n = 0 /\ verticesToRemove[n] /= 0
    \/ n /= 0 /\ verticesToRemove[n - 1] /= verticesToRemove[n]

\* Lines 180-182.
EnterRemoveUnconnected(E, caller) ==
    /\ Store(E)
    /\ pc' = "seqCount"
    /\ loop' = [n |-> 0, numberRemovedVertices |-> 0,
                verticesToRemove |-> [n \in Idx(E.nv) |-> 0]]
    /\ log' = [op |-> "removeUnconnectedVertices", returned |-> FALSE,
               entry |-> E, caller |-> caller,
               adjacency |-> E.hasNl]
    /\ args' = [op |-> caller]

\* Lines 312-320: createNeighborlist finds a vertex in no face.
CreateWithUnconnected ==
    /\ pc = "idle"
    /\ opCount < MaxOps
    /\ ~Stale(Cur)
    /\ \E n \in Idx(numberVertices) : Marked(Cur).vertex[n].marker < 0
    /\ EnterRemoveUnconnected(destroyNeighborlist(Marked(Cur)), "createNeighborlist")
    /\ opCount' = opCount + 1
    /\ UNCHANGED <<fault, budget>>

\* Lines 448-486 on the mesh M whose faces in marked have marker < 0: every
\* vertex is marked, the faces that stay are moved to the front and unmark
\* their corners, numberFaces is reduced.  neighborList is not touched.
deleteFaces(M, marked) ==
    LET kept == {k \in Idx(M.nf) : k \notin marked}
        rank(k) == Cardinality({j \in kept : j < k})
        numberRemovedFaces == M.nf - Cardinality(kept)
        named == UNION {{M.face[k].v1, M.face[k].v2, M.face[k].v3} : k \in kept}
    IN [M EXCEPT
          !.nf = M.nf - numberRemovedFaces,
          !.face = [i \in Idx(M.nf - numberRemovedFaces) |->
                       M.face[CHOOSE k \in kept : rank(k) = i]],
          !.vertex = [n \in Idx(M.nv) |->
                         [M.vertex[n] EXCEPT !.marker = IF n \in named THEN 0 ELSE -1]]]

\* The caller has set marker = -1 on some faces and calls deleteFaces().
DeleteFacesCall ==
    /\ pc = "idle"
    /\ opCount < MaxOps
    /\ ~Stale(Cur)
    /\ \E marked \in {F \in SUBSET Idx(numberFaces) : Cardinality(F) <= MaxMarked} :
          EnterRemoveUnconnected(deleteFaces(Cur, marked), "deleteFaces")
    /\ opCount' = opCount + 1
    /\ UNCHANGED <<fault, budget>>

\* The caller has set marker = -1 on some vertices and calls deleteVertices():
\* lines 492-501 mark the faces with such a corner, line 504 calls deleteFaces.
DeleteVerticesCall ==
    /\ pc = "idle"
    /\ opCount < MaxOps
    /\ ~Stale(Cur)
    /\ \E gone \in {V \in SUBSET Idx(numberVertices) : Cardinality(V) <= MaxMarked} :
          LET marked == {k \in Idx(numberFaces) :
                            {face[k].v1, face[k].v2, face[k].v3} \cap gone /= {}}
          IN EnterRemoveUnconnected(deleteFaces(Cur, marked), "deleteVertices")
    /\ opCount' = opCount + 1
    /\ UNCHANGED <<fault, budget>>

\* Lines 185-193, iteration n.
SeqCount ==
    /\ pc = "seqCount"
    /\ loop.n < numberVertices
    /\ LET c == IF vertex[loop.n].marker < 0 THEN loop.numberRemovedVertices + 1
                ELSE loop.numberRemovedVertices
       IN loop' = [loop EXCEPT !.n = @ + 1, !.numberRemovedVertices = c,
                               !.verticesToRemove[loop.n] = c]
    /\ UNCHANGED <<numberVertices, numberFaces, vertex, face, neighborList,
                   pc, args, log, fault, opCount, budget>>

\* The end of the first and of the second loop.
SeqLoopEnd ==
    /\ pc \in {"seqCount", "seqMove"}
    /\ loop.n >= numberVertices
    /\ pc' = IF pc = "seqCount" THEN "seqMove" ELSE "seqFaces"
    /\ loop' = [loop EXCEPT !.n = 0]
    /\ UNCHANGED <<numberVertices, numberFaces, vertex, face, neighborList,
                   args, log, fault, opCount, budget>>

\* Lines 199-211, iteration n.
SeqMove ==
    /\ pc = "seqMove"
    /\ loop.n < numberVertices
    /\ LET n == loop.n
           v == loop.verticesToRemove
       IN /\ loop' = [loop EXCEPT !.n = n + 1]
          /\ IF ToBeRemoved(v, n)
             THEN UNCHANGED <<vertex, pc, fault>>
             ELSE IF n - v[n] < 0
             THEN /\ pc' = "fault"
                  /\ fault' = "outOfBounds"
                  /\ UNCHANGED vertex
             ELSE /\ vertex' = [vertex EXCEPT ![n - v[n]] = vertex[n]]
                  /\ UNCHANGED <<pc, fault>>
    /\ UNCHANGED <<numberVertices, numberFaces, face, neighborList,
                   args, log, opCount, budget>>

\* Lines 216-221, iteration n.
SeqFaces ==
    /\ pc = "seqFaces"
    /\ loop.n < numberFaces
    /\ face' = [face EXCEPT ![loop.n] =
                   [@ EXCEPT !.v1 = @ - loop.verticesToRemove[@],
                             !.v2 = @ - loop.verticesToRemove[@],
                             !.v3 = @ - loop.verticesToRemove[@]]]
    /\ loop' = [loop EXCEPT !.n = @ + 1]
    /\ UNCHANGED <<numberVertices, numberFaces, vertex, neighborList,
                   pc, args, log, fault, opCount, budget>>

\* Line 224: numberVertices -= numberRemovedVertices, and the return.
SeqReturn ==
    /\ pc = "seqFaces"
    /\ loop.n >= numberFaces
    /\ numberVertices' = numberVertices - loop.numberRemovedVertices
    /\ vertex' = [n \in Idx(numberVertices - loop.numberRemovedVertices) |-> vertex[n]]
    /\ pc' = "removed"
    /\ log' = [log EXCEPT !.returned = TRUE]
    /\ UNCHANGED <<numberFaces, face, neighborList, args, loop, fault, opCount, budget>>

\* Line 323 in createNeighborlist: the call of itself; deleteFaces (line 487)
\* and deleteVertices (line 505) return.
AfterRemoval ==
    /\ pc = "removed"
    /\ IF log.caller = "createNeighborlist"
       THEN Store(createNeighborlist(Cur))
       ELSE UNCHANGED <<numberVertices, numberFaces, vertex, face, neighborList>>
    /\ pc' = "idle"
    /\ loop' = NoLoop
    /\ UNCHANGED <<args, log, fault, opCount, budget>>

InitDelete == InitWith({LooseVertex, TwoLooseVertices, Tetrahedron, OpenTetrahedron, Octahedron})

NextDelete ==
    \/ CreateNeighborlist
    \/ CreateWithUnconnected
    \/ DeleteFacesCall
    \/ DeleteVerticesCall
    \/ SeqCount
    \/ SeqLoopEnd
    \/ SeqMove
    \/ SeqFaces
    \/ SeqReturn
    \/ AfterRemoval

SpecDelete == InitDelete /\ [][NextDelete]_vars

\* The vertices removeUnconnectedVertices was told to remove, and the number
\* of them in front of vertex n.
Gone == {n \in Idx(log.entry.nv) : log.entry.vertex[n].marker < 0}

GoneBefore(n) == Cardinality({k \in Gone : k < n})

\* C28: removeUnconnectedVertices with its loops run in index order writes no
\* slot outside the tables and returns with numberVertices reduced by the number of vertices with marker < 0, every
\* other vertex, with its coordinates, marker and selected flag, at its index
\* less the number of removed vertices in front of it, and every face naming
\* the vertices it named.
C28_SurvivorsShiftedDown ==
    /\ (log.op = "removeUnconnectedVertices" /\ pc /= "idle") =>
          pc \in {"seqCount", "seqMove", "seqFaces", "removed"}
    /\ pc = "removed" =>
        /\ numberVertices = log.entry.nv - Cardinality(Gone)
        /\ DOMAIN vertex = Idx(numberVertices)
        /\ \A n \in Idx(log.entry.nv) \ Gone : vertex[n - GoneBefore(n)] = log.entry.vertex[n]
        /\ numberFaces = log.entry.nf
        /\ \A k \in Idx(numberFaces) :
              LET old == log.entry.face[k]
              IN /\ {old.v1, old.v2, old.v3} \cap Gone = {}
                 /\ face[k] = [old EXCEPT !.v1 = @ - GoneBefore(@),
                                          !.v2 = @ - GoneBefore(@),
                                          !.v3 = @ - GoneBefore(@)]
                 /\ vertex[face[k].v1] = log.entry.vertex[old.v1]
                 /\ vertex[face[k].v2] = log.entry.vertex[old.v2]
                 /\ vertex[face[k].v3] = log.entry.vertex[old.v3]

\* removeUnconnectedVertices has returned after removing vertex 0 and another
\* vertex, with a vertex that moved down two slots and a face left.
C28_TwoRemovedBeforeSurvivor ==
    /\ pc = "removed"
    /\ 0 \in Gone
    /\ \E n \in Idx(log.entry.nv) \ Gone : GoneBefore(n) = 2
    /\ \E n \in Idx(log.entry.nv) \ Gone : GoneBefore(n) = 1
    /\ numberFaces > 0

-----------------------------------------------------------------------------
\* deleteFaces or deleteVertices has returned.
Deleted ==
    /\ pc = "idle"
    /\ log.op = "removeUnconnectedVertices"
    /\ log.caller \in {"deleteFaces", "deleteVertices"}

\* C30: when deleteFaces or deleteVertices has returned and the adjacency is
\* attached, it has one list per vertex, every record of the list of v names
\* two vertices and a face of the tables, that face has the corners v, a, b,
\* and every corner of every face has its record.
C30_AdjacencyFollowsDeletion ==
    (Deleted /\ neighborList.attached) =>
        /\ DOMAIN neighborList.ring = Idx(numberVertices)
        /\ RecordsNameFaces
        /\ FacesHaveRecords

\* deleteFaces or deleteVertices has returned after dropping a face, the
\* adjacency built before the call is still attached, and one of its records
\* names a face or a vertex beyond the end of the tables.
C30_StaleAdjacencyAttached ==
    /\ Deleted
    /\ log.adjacency
    /\ neighborList.attached
    /\ \E v \in Idx(numberVertices) : \E i \in 1 .. Len(Ring(v)) :
          \/ Ring(v)[i].c >= numberFaces
          \/ Ring(v)[i].a >= numberVertices
          \/ Ring(v)[i].b >= numberVertices

-----------------------------------------------------------------------------
(* getEigenVector(vertexIndex, ...), lines 646-830: the breadth-first walk   *)
(* of lines 664-733 that collects the vertices whose normals enter the       *)
(* matrix.  Q is [indexArray, distArray], the filled parts of the two arrays *)
(* as sequences: endPointer is their length, slot k is element k + 1.        *)

Slots == 333

\* Line 688: (DIM_SCALE > 2) ? (3) : (2); the macro is defined outside this
\* file, so both arms are inputs of the walk.
RingLimits == {2, 3}

\* Lines 708-727: a neighbour m that is not yet in
\* indexArray[0 .. endPointer - 1] is written to slot endPointer.
Enter(m, dist, Q) ==
    IF \E n \in 1 .. Len(Q.indexArray) : Q.indexArray[n] = m
    THEN Q
    ELSE [indexArray |-> Append(Q.indexArray, m), distArray |-> Append(Q.distArray, dist + 1)]

\* Lines 690-730: the records lo .. hi of one list, in list order (the range
\* is halved so that long lists are walked at logarithmic depth).
RECURSIVE VisitRing(_, _, _, _, _)
VisitRing(ring, lo, hi, dist, Q) ==
    IF lo > hi THEN Q
    ELSE IF lo = hi THEN Enter(ring[lo].a, dist, Q)
    ELSE LET mid == (lo + hi) \div 2
             first == VisitRing(ring, lo, mid, dist, Q)
         IN \* slot 0 is always filled; reading the length completes the
            \* first half before the second half starts
            IF Len(first.indexArray) = 0 THEN first
            ELSE VisitRing(ring, mid + 1, hi, dist, first)

\* Lines 684-732 for the slots lo .. hi of indexArray, in slot order: the
\* list of a vertex is walked when its distance is below the limit.
RECURSIVE WalkSlots(_, _, _, _, _)
WalkSlots(nl, limit, lo, hi, Q) ==
    IF lo > hi THEN Q
    ELSE IF lo = hi
    THEN LET index == Q.indexArray[lo]
             dist == Q.distArray[lo]
         IN IF dist < limit THEN VisitRing(nl[index], 1, Len(nl[index]), dist, Q) ELSE Q
    ELSE LET mid == (lo + hi) \div 2
             first == WalkSlots(nl, limit, lo, mid, Q)
         IN IF Len(first.indexArray) = 0 THEN first
            ELSE WalkSlots(nl, limit, mid + 1, hi, first)

\* Lines 682-733: while (startPointer < endPointer).  The slots filled so far
\* are walked, then the slots that walk has filled, until none is left.
RECURSIVE Walk(_, _, _, _)
Walk(nl, limit, startPointer, Q) ==
    IF startPointer >= Len(Q.indexArray) THEN Q
    ELSE LET endPointer == Len(Q.indexArray)
         IN Walk(nl, limit, endPointer,
                 WalkSlots(nl, limit, startPointer + 1, endPointer, Q))

\* A bipyramid over a rim of k vertices: vertices 0 and 1 are the two apexes,
\* 2 .. k + 1 the rim; every list is a closed cycle.
Bipyramid(k) ==
    LET rim(i) == 2 + ((i - 1) % k)
    IN Input([i \in 1 .. (k + 2) |->
                 IF i = 1 THEN <<0, 0, k>> ELSE IF i = 2 THEN <<0, 0, -k>>
                 ELSE <<i - 2, (i - 2) * (k + 2 - i), 0>>],
             [i \in 1 .. (2 * k) |->
                 IF i <= k THEN <<0, rim(i), rim(i + 1)>>
                 ELSE <<1, rim(i - k + 1), rim(i - k)>>])

SmallRims == {3, 4, 5}

\* The calls start from the vertices 0 .. MaxStart: both apexes and the
\* first rim vertices.
MaxStart == 6

LargeRims == {Slots - 2, Slots - 1}

\* getEigenVector(vertexIndex) on the attached adjacency.  A write to
\* indexArray[endPointer] with endPointer >= 333 lands in the stack frame
\* behind the array: the call either does not return ("crash") or returns
\* with whatever it has overwritten ("overrun").
GetEigenVector ==
    /\ pc = "idle"
    /\ opCount < MaxOps
    /\ neighborList.attached
    /\ \E vertexIndex \in Idx(numberVertices) \cap (0 .. MaxStart), limit \in RingLimits :
          LET Q == Walk(neighborList.ring, limit, 0,
                        [indexArray |-> <<vertexIndex>>, distArray |-> <<0>>])
              entry(outcome) == [op |-> "getEigenVector", vertexIndex |-> vertexIndex,
                                 indexArray |-> Q.indexArray, distArray |-> Q.distArray,
                                 limit |-> limit, outcome |-> outcome]
          IN IF Len(Q.indexArray) <= Slots
             THEN /\ log' = entry("returned")
                  /\ UNCHANGED <<pc, fault>>
             ELSE \/ /\ log' = entry("crash")
                     /\ pc' = "fault"
                     /\ fault' = "stackOverrun"
                  \/ /\ log' = entry("overrun")
                     /\ UNCHANGED <<pc, fault>>
    /\ args' = [op |-> "getEigenVector"]
    /\ opCount' = opCount + 1
    /\ UNCHANGED <<numberVertices, numberFaces, vertex, face, neighborList, loop, budget>>

\* The lists createNeighborlist builds on Bipyramid(k), in the order its
\* ordering walk leaves them.
BipyramidRings(k) ==
    LET rim(i) == 2 + ((i - 1) % k)
    IN [n \in Idx(k + 2) |->
          IF n = 0
          THEN [j \in 1 .. k |->
                  IF j = 1 THEN Rec(rim(k), rim(1), k - 1)
                  ELSE Rec(rim(j - 1), rim(j), j - 2)]
          ELSE IF n = 1
          THEN [j \in 1 .. k |-> Rec(rim(k + 2 - j), rim(k + 1 - j), 2 * k - j)]
          ELSE IF n = 2
          THEN << Rec(rim(k), 1, 2 * k - 1), Rec(1, rim(2), k),
                  Rec(rim(2), 0, 0), Rec(0, rim(k), k - 1) >>
          ELSE LET i == n - 1
               IN << Rec(1, rim(i + 1), k + i - 1), Rec(rim(i + 1), 0, i - 1),
                     Rec(0, rim(i - 1), i - 2), Rec(rim(i - 1), 1, k + i - 2) >>]

\* Bipyramid(k) after createNeighborlist.
BipyramidBuilt(k) ==
    [Bipyramid(k) EXCEPT !.nl = BipyramidRings(k), !.hasNl = TRUE]

\* The small bipyramids start without adjacency, the large ones with the
\* adjacency createNeighborlist builds on them.
InitEigen ==
    /\ \E M \in {Bipyramid(k) : k \in SmallRims} \cup {BipyramidBuilt(k) : k \in LargeRims} :
          /\ numberVertices = M.nv
          /\ numberFaces = M.nf
          /\ vertex = M.vertex
          /\ face = M.face
          /\ neighborList = [attached |-> M.hasNl, ring |-> M.nl]
    /\ pc = "idle"
    /\ args = NoArgs
    /\ loop = NoLoop
    /\ log = NoLog
    /\ fault = NoFault
    /\ opCount = 0
    /\ budget = MaxMoves

\* if (!neighborList) createNeighborlist(), as the callers of getEigenVector
\* begin.
CreateWhenMissing ==
    /\ ~neighborList.attached
    /\ CreateNeighborlist

NextEigen == CreateWhenMissing \/ GetEigenVector

\* On the small bipyramids createNeighborlist builds exactly BipyramidRings.
BipyramidRingsAsBuilt ==
    (neighborList.attached /\ numberVertices - 2 \in SmallRims) =>
        neighborList.ring = BipyramidRings(numberVertices - 2)

SpecEigen == InitEigen /\ [][NextEigen]_vars

\* C29: the walk of getEigenVector enters no vertex twice, enters only
\* vertices within the ring distance limit, and fills at most the 333 slots of
\* indexArray and distArray.
C29_WalkFitsArrays ==
    log.op = "getEigenVector" =>
        /\ \A i, j \in 1 .. Len(log.indexArray) :
              log.indexArray[i] = log.indexArray[j] => i = j
        /\ \A i \in 1 .. Len(log.distArray) : log.distArray[i] <= log.limit
        /\ Len(log.indexArray) <= Slots

\* getEigenVector has written past slot 332 on a closed mesh whose vertices
\* are all selected, without entering a vertex twice.
C29_WalkOverranArrays ==
    /\ log.op = "getEigenVector"
    /\ Len(log.indexArray) > Slots
    /\ \A n \in Idx(numberVertices) : vertex[n].selected /\ IsCycle(Ring(n))
    /\ \A i, j \in 1 .. Len(log.indexArray) :
          log.indexArray[i] = log.indexArray[j] => i = j

====
